---- MODULE Spec2Model ----
(***************************************************************************)
(* A model of lima's host-side start supervisor (pkg/start/start.go) and   *)
(* of the guest agent's event loop (pkg/guestagent, agent.Events,          *)
(* collectEvent, LocalPorts, LocalSockets, comparePorts, compareSockets).  *)
(*                                                                         *)
(* The specifications share the variables:                                 *)
(*   SpecStart / FairSpecStart  Start, waitHostAgentStart, the watcher and *)
(*                              the exit-wait goroutines, the host agent   *)
(*                              process as environment, called with a ctx  *)
(*                              that is never done;                        *)
(*   SpecStartCtx               the same with a caller that cancels ctx    *)
(*                              and the kill of the subprocess that        *)
(*                              exec.CommandContext then makes;            *)
(*   SpecDiff                   comparePorts / compareSockets on inputs    *)
(*                              drawn by Init;                             *)
(*   SpecAgent / FairSpecAgent  the guest agent's Events loop;             *)
(*   SpecSample                 one call of LocalPorts, LocalSockets, Info;*)
(*   SpecTracker                New, the two loops of the tracker and      *)
(*                              LocalPorts step by step with their locks;  *)
(*   SpecStream                 Events and a consumer applying the events; *)
(*   SpecCallers                two concurrent callers of LocalPorts.      *)
(* A specification leaves the variables of the other parts at their        *)
(* initial values.                                                         *)
(***************************************************************************)
EXTENDS Integers, Sequences, FiniteSets, TLC

VARIABLES
    \* ---- pkg/start: func Start and its two goroutines
    pc,            \* position of Start: begin, prepare, spawn, waitStart, go, select, returned
    ret,           \* what Start returned: "pending" until it returns, "nil" is success
    winner,        \* which case of the select at start.go:114 was taken
    pidfile,       \* haPIDPath exists on disk
    proc,          \* the host agent subprocess: none, running, exited
    exitStatus,    \* exit status of the subprocess once exited
    procAtReturn,  \* what the subprocess was doing when Start returned
    now,           \* wall clock, seconds
    hsDeadline,    \* waitHostAgentStart: deadline := begin.Add(5s)
    watchDeadline, \* watchHostAgentEvents: ctx2's deadline
    logLines,      \* number of event lines in ha.stdout.log
    processed,     \* number of lines WatchEvents has handed to onEvent
    lastEv,        \* the event most recently handed to onEvent
    w,             \* locals of watchHostAgentEvents captured by onEvent
    wend,          \* why WatchEvents returned: none, stop, deadline, eof, xerr
    wres,          \* the value watchHostAgentEvents returned
    wpc,           \* watcher goroutine: idle, watch, send, close, done
    xpc,           \* exit-wait goroutine: idle, wait, send, close, done
    \* ---- pkg/guestagent: comparePorts and compareSockets applied to given lists
    cmpPc,         \* which comparison is to be made: ports, sockets, done
    oldPorts,      \* comparePorts: old
    newPorts,      \* comparePorts: neww
    portsAdded,    \* comparePorts: added
    portsRemoved,  \* comparePorts: removed
    oldSockets,    \* compareSockets: old
    newSockets,    \* compareSockets: neww
    socketsAdded,  \* compareSockets: added
    socketsRemoved, \* compareSockets: removed
    \* ---- pkg/guestagent: the agent and its Events loop
    apc,           \* Events: off, collect, send, select, returned
    st,            \* Events: var st eventState
    curEv,         \* Events: var ev api.Event (without Time)
    chClosed,      \* the channel handed to Events has been closed
    cancelled,     \* ctx.Done() is closed
    tickerOpen,    \* the channel of newTicker() is open
    consumerGone,  \* nobody receives from the channel any more
    bigEndian,     \* native_endian.NativeEndian() == binary.BigEndian
    worthCheckingIPTables, \* agent.worthCheckingIPTables
    latestIPTables, \* agent.latestIPTables
    sinceLatestTrue, \* setWorthCheckingIPTablesRoutine: time.Since(latestTrue), in
                   \* ticks, counted up to iptablesIdle ("iptablesIdle or more")
    \* ---- pkg/guestagent: one call of LocalPorts, LocalSockets or Info
    spc,           \* the call: off, ready, done
    tcpTable,      \* what procnettcp.ParseFiles() gives when it is called
    iptTable,      \* what iptables.GetPorts() gives when it is called
    unixTable,     \* what procnetunix.ParseFile() gives when it is called
    sres,          \* which method was called and what it returned
    \* ---- pkg/guestagent: New, the two loops of the tracker, LocalPorts by steps
    npc,           \* New: off, new, done
    newRet,        \* what New returned: whether an agent, and the error
    rpc,           \* receive loop: off, receive, lock, write
    ipc,           \* idle loop: off, sleep, lock, check
    lastMsg,       \* what auditClient.Receive returned last
    slept,         \* ticks the idle loop has been in time.Sleep
    flagMu,        \* worthCheckingIPTablesMu: its writer and its readers
    cacheMu,       \* latestIPTablesMu: its writer and its readers
    lpc,           \* LocalPorts: off, idle, begin, rlock, rread, branch, query,
                   \* clock, cstore, crlock, cload, merge, done
    lw,            \* locals of LocalPorts: res, worthCheckingIPTables, ipts,
                   \* and the value read from the field at part_001:501
    flagWrites,    \* values written to the flag since LocalPorts released its lock
    \* ---- the consumer of the event channel
    view,          \* ports and sockets the consumer has built up from the events
    \* ---- the context handed to Start
    ctxDone,       \* Start's ctx is done (cancelled by the caller)
    \* ---- the deferred calls of Events
    chCloses,      \* how often Events has called close(ch)
    tickerCloses,  \* how often Events has called tickerClose()
    \* ---- LocalPorts called by Events and by Info at the same time
    callers,       \* per caller: its position in part_001:500-513, its local
                   \* ipts, and the error it returned
    \* ---- the call of LocalPorts that Events, LocalPorts or Info has in flight
    lpLocals       \* none, or the caller, the position (branch, query, store,
                   \* load, merge) and the locals res and ipts of a call that
                   \* is past part_001:497 and has not yet returned

startVars == <<pc, ret, winner, pidfile, proc, exitStatus, procAtReturn, now,
               hsDeadline,
               watchDeadline, logLines, processed, lastEv, w, wend, wres, wpc, xpc>>

diffVars == <<cmpPc, oldPorts, newPorts, portsAdded, portsRemoved,
              oldSockets, newSockets, socketsAdded, socketsRemoved>>

agentVars == <<apc, st, curEv, chClosed, cancelled, tickerOpen, consumerGone,
               bigEndian, worthCheckingIPTables, latestIPTables, sinceLatestTrue>>

sampleVars == <<spc, tcpTable, iptTable, unixTable, sres>>

trackerVars == <<npc, newRet, rpc, ipc, lastMsg, slept, flagMu, cacheMu, lpc, lw,
                 flagWrites>>

streamVars == <<view>>

ctxVars == <<ctxDone>>

returnVars == <<chCloses, tickerCloses>>

callerVars == <<callers>>

flightVars == <<lpLocals>>

vars == <<startVars, diffVars, agentVars, sampleVars, trackerVars, streamVars,
          ctxVars, returnVars, callerVars, flightVars>>

\* what the actions of Start and of its environment leave alone
notStart == <<diffVars, agentVars, sampleVars, trackerVars, streamVars,
              ctxVars, returnVars, callerVars, flightVars>>

\* what the comparisons leave alone
notDiff == <<startVars, agentVars, sampleVars, trackerVars, streamVars,
             ctxVars, returnVars, callerVars, flightVars>>

\* what the guest agent and its environment leave alone
notAgent == <<startVars, diffVars, sampleVars, trackerVars, streamVars,
              ctxVars, returnVars, callerVars, flightVars>>

\* what a single call of LocalPorts, LocalSockets or Info leaves alone, the
\* agent's fields apart
notSample == <<startVars, diffVars, trackerVars, streamVars,
               ctxVars, returnVars, callerVars, flightVars>>

\* what New, the tracker and LocalPorts by steps never touch
notTracker == <<startVars, diffVars, streamVars, ctxVars, returnVars, callerVars, flightVars>>

-----------------------------------------------------------------------------
(* Bounds and program constants *)

\* most event lines the host agent appends to ha.stdout.log in one run
MaxLog == 2

\* clock granularity, in seconds, while only the 10-minute watch deadline is armed
WatchTick == 300

\* start.go:127  deadlineDuration := 5 * time.Second
deadlineDuration == 5

\* start.go:140  context.WithTimeout(ctx, 10*time.Minute), in seconds
watchTimeout == 600

-----------------------------------------------------------------------------
(* hostagentapi.Event: the Status record of one line of ha.stdout.log *)

NoEvent == [sshLocalPort |-> 0, running |-> FALSE, degraded |-> FALSE,
            exiting |-> FALSE, errors |-> <<>>]

Events == [sshLocalPort : {0, 60022}, running : BOOLEAN, degraded : BOOLEAN,
           exiting : BOOLEAN, errors : {<<>>, <<"e">>}]

\* locals of watchHostAgentEvents, start.go:143-147, plus what it has logged
\* and whether the event handed to onEvent last had a non-zero SSHLocalPort
\* after the port had been printed for an earlier event, and left the watcher
\* watching (portRepeated)
WatchLocals0 == [printedSSHLocalPort |-> FALSE, receivedRunningEvent |-> FALSE,
                 err |-> "nil", stop |-> FALSE,
                 portReports |-> 0, errorLogs |-> 0, portRepeated |-> FALSE]

-----------------------------------------------------------------------------
(* pkg/guestagent: comparePorts and compareSockets *)

\* longest list handed to comparePorts and compareSockets
MaxDiffLen == 2

\* api.IPPort values the lists are drawn from
IPPorts == { [ip |-> "127.0.0.1", port |-> 80],
             [ip |-> "127.0.0.1", port |-> 443],
             [ip |-> "0.0.0.0", port |-> 80] }

\* socket paths the lists are drawn from
SocketPaths == {"/run/a.sock", "/run/b.sock"}

SeqsUpTo(S, n) == {<<>>} \cup UNION { [1..k -> S] : k \in 1..n }

Range(q) == { q[i] : i \in 1..Len(q) }

\* the lists that hold every element of the set S once: the orders in which
\* ranging over a Go map can yield its entries
Orderings(S) ==
    IF S = {} THEN {<<>>}
    ELSE { q \in [1..Cardinality(S) -> S] : Range(q) = S }

\* api.IPPort.String(): "ip:port". The port is the text after the last colon,
\* so two values have the same string only if they have the same ip and port.
IPPortString(f) == <<f.ip, f.port>>

\* the IPPort a map from String() keys to IPPort holds at k after all of q was
\* stored in order: the last element of q with that key
LastWithKey(q, k) ==
    q[CHOOSE i \in 1..Len(q) :
          /\ IPPortString(q[i]) = k
          /\ \A j \in (i+1)..Len(q) : IPPortString(q[j]) # k]

\* comparePorts that, like compareSockets, never fills mRaw
comparePorts_EmptyRaw(old, neww) ==
    [added   |-> SelectSeq(neww, LAMBDA f : TRUE),
     removed |-> {}]

\* part_001:362-387. mRaw and mStillExist are keyed by String(); added is
\* built in the order of neww, removed by ranging over mStillExist, whose
\* order is not fixed: .removed is the set of its elements.
comparePorts(old, neww) ==
    LET mRawKeys == { IPPortString(old[i]) : i \in 1..Len(old) }
        newKeys  == { IPPortString(neww[i]) : i \in 1..Len(neww) }
        mStillExist == [k \in mRawKeys \cup newKeys |-> k \in newKeys]
    IN  [added   |-> SelectSeq(neww, LAMBDA f : IPPortString(f) \notin mRawKeys),
         removed |-> { LastWithKey(old, k) :
                         k \in { x \in DOMAIN mStillExist :
                                   ~mStillExist[x] /\ x \in mRawKeys } }]

\* part_001:396-401: the loop over neww; acc.seen is the key set of
\* mStillExist, which grows as the loop goes
RECURSIVE socketsAddedLoop(_, _, _)
socketsAddedLoop(neww, i, acc) ==
    IF i > Len(neww) THEN acc
    ELSE socketsAddedLoop(neww, i + 1,
           [seen  |-> acc.seen \cup {neww[i]},
            added |-> IF neww[i] \in acc.seen THEN acc.added
                      ELSE Append(acc.added, neww[i])])

\* part_001:389-411. mRaw is made at :390 and nothing is ever stored in it, so
\* the lookup mRaw[k] at :405 never succeeds.
compareSockets(old, neww) ==
    LET mRawKeys == {}
        oldKeys  == Range(old)
        r        == socketsAddedLoop(neww, 1, [seen |-> oldKeys, added |-> <<>>])
        newKeys  == Range(neww)
        mStillExist == [k \in oldKeys \cup newKeys |-> k \in newKeys]
    IN  [added   |-> r.added,
         removed |-> { k \in DOMAIN mStillExist :
                         ~mStillExist[k] /\ k \in mRawKeys }]

\* one call of comparePorts
ComparePorts ==
    /\ cmpPc = "ports"
    /\ LET r == comparePorts(oldPorts, newPorts)
       IN  /\ portsAdded' = r.added
           /\ portsRemoved' \in Orderings(r.removed)
    /\ cmpPc' = "done"
    /\ UNCHANGED <<oldPorts, newPorts, oldSockets, newSockets,
                   socketsAdded, socketsRemoved>>
    /\ UNCHANGED notDiff

\* one call of compareSockets
CompareSockets ==
    /\ cmpPc = "sockets"
    /\ LET r == compareSockets(oldSockets, newSockets)
       IN  /\ socketsAdded' = r.added
           /\ socketsRemoved' \in Orderings(r.removed)
    /\ cmpPc' = "done"
    /\ UNCHANGED <<oldPorts, newPorts, oldSockets, newSockets,
                   portsAdded, portsRemoved>>
    /\ UNCHANGED notDiff

\* no comparison is asked for
DiffIdle ==
    /\ cmpPc = "done"
    /\ oldPorts = <<>> /\ newPorts = <<>>
    /\ portsAdded = <<>> /\ portsRemoved = <<>>
    /\ oldSockets = <<>> /\ newSockets = <<>>
    /\ socketsAdded = <<>> /\ socketsRemoved = <<>>

\* a comparison of two port lists or of two socket lists is asked for
DiffInit ==
    /\ portsAdded = <<>> /\ portsRemoved = <<>>
    /\ socketsAdded = <<>> /\ socketsRemoved = <<>>
    /\ \/ /\ cmpPc = "ports"
          /\ oldPorts \in SeqsUpTo(IPPorts, MaxDiffLen)
          /\ newPorts \in SeqsUpTo(IPPorts, MaxDiffLen)
          /\ oldSockets = <<>> /\ newSockets = <<>>
       \/ /\ cmpPc = "sockets"
          /\ oldSockets \in SeqsUpTo(SocketPaths, MaxDiffLen)
          /\ newSockets \in SeqsUpTo(SocketPaths, MaxDiffLen)
          /\ oldPorts = <<>> /\ newPorts = <<>>

-----------------------------------------------------------------------------
(* pkg/guestagent: the agent, part_001:285-563 *)

\* longest /proc/net/tcp listing, iptables rule list and /proc/net/unix
\* listing a sample reads
MaxTcp == 1
MaxIpt == 1
MaxSock == 1

\* New's iptablesIdle, in clock ticks
iptablesIdle == 2

\* entries of procnettcp.ParseFiles() the listings are drawn from
TcpEntries ==
    { [kind |-> "TCP",  state |-> "TCPListen",      ip |-> "127.0.0.1", port |-> 80],
      [kind |-> "TCP6", state |-> "TCPListen",      ip |-> "::",        port |-> 443],
      [kind |-> "TCP",  state |-> "TCPEstablished", ip |-> "127.0.0.1", port |-> 22] }

\* entries of iptables.GetPorts() the rule lists are drawn from: the port of
\* the first TCP entry, at another address
IptEntries ==
    { [ip |-> "0.0.0.0", port |-> 80] }

\* entries of procnetunix.ParseFile() the listings are drawn from
UnixEntries ==
    { [state |-> "StateConnected",     path |-> "/run/a.sock"],
      [state |-> "StateDisconnecting", path |-> "/run/b.sock"] }

\* what a read of a kernel table or of the packet filter gives: a list, or an error
Reads(S, n) ==
    { [err |-> "nil", val |-> q] : q \in SeqsUpTo(S, n) }
      \cup { [err |-> "readError", val |-> <<>>] }

\* the value standing for a read that a sample does not make
NotRead == [err |-> "notRead", val |-> <<>>]

\* part_001:501: what the read of a.worthCheckingIPTables, made without the
\* lock while the tracker's two loops (:335, :350) write the field, may find.
\* New starts the tracker with every agent, so each call of LocalPorts runs
\* beside it. SpecTracker takes the call and the tracker step by step; two
\* calls of LocalPorts in flight at once are taken step by step in SpecCallers
FlagReads == BOOLEAN

\* the read of the TCP tables that a call of LocalPorts makes, unless the
\* host is big-endian
TcpReads(be) ==
    IF be THEN {NotRead} ELSE Reads(TcpEntries, MaxTcp)

\* no call of LocalPorts is between its statements
NoLocalPorts == <<>>

\* part_001:480-493: the listening TCP and TCP6 entries, as api.IPPort
RECURSIVE listening(_)
listening(tcpParsed) ==
    IF tcpParsed = <<>> THEN <<>>
    ELSE LET f == Head(tcpParsed)
         IN  IF f.kind \in {"TCP", "TCP6"} /\ f.state = "TCPListen"
               THEN <<[ip |-> f.ip, port |-> f.port]>> \o listening(Tail(tcpParsed))
               ELSE listening(Tail(tcpParsed))

\* the merge without the search of part_001:517-522: every entry is appended
RECURSIVE mergeIPTables_AppendsAll(_, _)
mergeIPTables_AppendsAll(res, ipts) ==
    IF ipts = <<>> THEN res
    ELSE LET ipt == Head(ipts)
         IN  mergeIPTables_AppendsAll(Append(res, [ip |-> ipt.ip, port |-> ipt.port]),
                                      Tail(ipts))

\* part_001:515-530: an iptables entry is appended unless an entry of the
\* result so far has its port
RECURSIVE mergeIPTables(_, _)
mergeIPTables(res, ipts) ==
    IF ipts = <<>> THEN res
    ELSE LET ipt   == Head(ipts)
             found == \E i \in 1..Len(res) : res[i].port = ipt.port
         IN  mergeIPTables(IF found THEN res
                           ELSE Append(res, [ip |-> ipt.ip, port |-> ipt.port]),
                           Tail(ipts))

\* LocalPorts with the test of the byte order made at the end: the tables
\* are read and the list is built before the error is returned
LocalPorts_EndianCheckLate(be, tcp, worth, ipt, cache) ==
    LET r == IF tcp.err # "nil"
               THEN [ports |-> <<>>, err |-> tcp.err, cache |-> cache,
                     parsed |-> TRUE, queried |-> FALSE]
             ELSE LET res == listening(tcp.val)
                  IN  IF worth
                        THEN IF ipt.err # "nil"
                               THEN [ports |-> res, err |-> ipt.err, cache |-> cache,
                                     parsed |-> TRUE, queried |-> TRUE]
                               ELSE [ports |-> mergeIPTables(res, ipt.val),
                                     err |-> "nil", cache |-> ipt.val,
                                     parsed |-> TRUE, queried |-> TRUE]
                        ELSE [ports |-> mergeIPTables(res, cache), err |-> "nil",
                              cache |-> cache, parsed |-> TRUE, queried |-> FALSE]
    IN  IF be /\ r.err = "nil" THEN [r EXCEPT !.err = "bigEndian"] ELSE r

\* part_001:470-533. tcp and ipt are what procnettcp.ParseFiles() and
\* iptables.GetPorts() give when called; worth is a.worthCheckingIPTables as
\* read at :501; cache is a.latestIPTables. The result has the list and the
\* error returned, the new a.latestIPTables, and whether ParseFiles and
\* GetPorts were called.
LocalPorts(be, tcp, worth, ipt, cache) ==
    IF be
      THEN [ports |-> <<>>, err |-> "bigEndian", cache |-> cache,
            parsed |-> FALSE, queried |-> FALSE]
    ELSE IF tcp.err # "nil"
      THEN [ports |-> <<>>, err |-> tcp.err, cache |-> cache,
            parsed |-> TRUE, queried |-> FALSE]
    ELSE LET res == listening(tcp.val)
         IN  IF worth
               THEN IF ipt.err # "nil"
                      THEN [ports |-> res, err |-> ipt.err, cache |-> cache,
                            parsed |-> TRUE, queried |-> TRUE]
                      ELSE [ports |-> mergeIPTables(res, ipt.val), err |-> "nil",
                            cache |-> ipt.val, parsed |-> TRUE, queried |-> TRUE]
               ELSE [ports |-> mergeIPTables(res, cache), err |-> "nil",
                     cache |-> cache, parsed |-> TRUE, queried |-> FALSE]

\* part_001:470-497: the locals of a call of LocalPorts by `caller` that did
\* not return at :473 or :478 and has released worthCheckingIPTablesMu: it is
\* at "branch", before the read of the flag at :501
LocalPortsEntered(caller, tcp) ==
    [call |-> caller, pc |-> "branch", res |-> listening(tcp.val),
     ipts |-> <<>>, queried |-> FALSE]

\* part_001:501-512, one statement of the call with locals l at a time; the
\* result has the new locals and the new a.latestIPTables.
\*   branch  the read of the flag without the lock (:501), which found worth
\*   query   iptables.GetPorts() (:502) returned the list ipt.val
\*   store   Lock, a.latestIPTables = ipts, Unlock (:506-508)
\*   load    RLock, ipts = a.latestIPTables, RUnlock (:510-512)
LocalPortsStep(l, worth, ipt, cache) ==
    CASE l.pc = "branch" ->
           [l |-> [l EXCEPT !.pc = IF worth THEN "query" ELSE "load"], cache |-> cache]
      [] l.pc = "query" ->
           [l |-> [l EXCEPT !.pc = "store", !.ipts = ipt.val, !.queried = TRUE],
            cache |-> cache]
      [] l.pc = "store" ->
           [l |-> [l EXCEPT !.pc = "merge"], cache |-> l.ipts]
      [] l.pc = "load" ->
           [l |-> [l EXCEPT !.pc = "merge", !.ipts = cache], cache |-> cache]

\* part_001:502-505: GetPorts failed and the call returns res and the error
LocalPortsQueryFailed(l, ipt, cache) ==
    [ports |-> l.res, err |-> ipt.err, cache |-> cache,
     parsed |-> TRUE, queried |-> TRUE]

\* part_001:515-532: the call merges ipts into res and returns; cache is
\* a.latestIPTables, which the merge leaves alone
LocalPortsReturn(l, cache) ==
    [ports |-> mergeIPTables(l.res, l.ipts), err |-> "nil", cache |-> cache,
     parsed |-> TRUE, queried |-> l.queried]

\* part_001:551-563: the paths of the sockets in one of the three states; on
\* an error the list is nil
RECURSIVE socketPaths(_)
socketPaths(parsed) ==
    IF parsed = <<>> THEN <<>>
    ELSE LET f == Head(parsed)
         IN  IF f.state \in {"StateUnconnected", "StateConnecting", "StateConnected"}
               THEN <<f.path>> \o socketPaths(Tail(parsed))
               ELSE socketPaths(Tail(parsed))

LocalSockets(unix) ==
    IF unix.err = "nil"
      THEN [sockets |-> socketPaths(unix.val), err |-> "nil"]
      ELSE [sockets |-> <<>>, err |-> unix.err]

\* api.Event without its Time; the removed lists are kept as sets until the
\* order of the map range is chosen
EmptyEvent ==
    [localPortsAdded |-> <<>>, localPortsRemoved |-> <<>>,
     localSocketsAdded |-> <<>>, localSocketsRemoved |-> <<>>, errors |-> <<>>]

\* part_001:413-437. lp and ls are the results of a.LocalPorts and of
\* a.LocalSockets; ls is used only when LocalPorts returned no error.
\* .removedPorts and .removedSockets are the sets the removed lists hold.
collectEvent(state, lp, ls) ==
    LET newSt1 == [state EXCEPT !.ports = lp.ports]
    IN  IF lp.err # "nil"
          THEN [ev |-> [EmptyEvent EXCEPT !.errors = <<lp.err>>],
                removedPorts |-> {}, removedSockets |-> {},
                st |-> newSt1]
        ELSE LET dp     == comparePorts(state.ports, newSt1.ports)
                 ev1    == [EmptyEvent EXCEPT !.localPortsAdded = dp.added]
                 newSt2 == [newSt1 EXCEPT !.sockets = ls.sockets]
             IN  IF ls.err # "nil"
                   THEN [ev |-> [ev1 EXCEPT !.errors = <<ls.err>>],
                         removedPorts |-> dp.removed, removedSockets |-> {},
                         st |-> newSt2]
                   ELSE LET ds == compareSockets(state.sockets, newSt2.sockets)
                        IN  [ev |-> [ev1 EXCEPT !.localSocketsAdded = ds.added],
                             removedPorts |-> dp.removed,
                             removedSockets |-> ds.removed,
                             st |-> newSt2]

\* isEventEmpty that looks at the four lists only
isEventEmpty_IgnoresErrors(e) ==
    /\ e.localPortsAdded = <<>> /\ e.localPortsRemoved = <<>>
    /\ e.localSocketsAdded = <<>> /\ e.localSocketsRemoved = <<>>

\* part_001:439-445: every field but Time is the zero value
isEventEmpty(e) == e = EmptyEvent

\* part_001:453-457: one cycle of Events up to the send, step by step.
\* A cycle of Events, one statement of its call of LocalPorts (:419) at a
\* time: the call up to the RUnlock of :497, with tcp what ParseFiles gave;
\* the read of the flag at :501, which finds worth (the tracker writes the
\* flag while the call runs); GetPorts, which gives ipt; the store or the
\* load of a.latestIPTables; then the merge (:515-530), LocalSockets (:427),
\* the diff, and the decision whether to send. A call that fails returns at
\* once and the cycle ends with the error event. The tracker and the
\* environment act between the steps
EventsCollect(tcp, worth, ipt, unix) ==
    /\ apc = "collect"
    /\ IF lpLocals = NoLocalPorts
         THEN LET lp == LocalPorts(bigEndian, tcp, FALSE, NotRead, latestIPTables)
                  c  == collectEvent(st, lp, LocalSockets(unix))
              IN  IF lp.err # "nil"
                    THEN /\ curEv' = c.ev
                         /\ st' = c.st
                         /\ apc' = IF isEventEmpty(curEv') THEN "select" ELSE "send"
                         /\ UNCHANGED <<lpLocals, latestIPTables>>
                    ELSE /\ lpLocals' = <<LocalPortsEntered("Events", tcp)>>
                         /\ UNCHANGED <<apc, st, curEv, latestIPTables>>
         ELSE LET l == lpLocals[1]
              IN  /\ l.call = "Events"
                  /\ IF l.pc = "merge"
                        THEN LET lp == LocalPortsReturn(l, latestIPTables)
                                 c  == collectEvent(st, lp, LocalSockets(unix))
                             IN  /\ \E rp \in Orderings(c.removedPorts),
                                       rs \in Orderings(c.removedSockets) :
                                       curEv' = [c.ev EXCEPT !.localPortsRemoved = rp,
                                                          !.localSocketsRemoved = rs]
                                 /\ st' = c.st
                                 /\ apc' = IF isEventEmpty(curEv') THEN "select" ELSE "send"
                                 /\ lpLocals' = NoLocalPorts
                                 /\ UNCHANGED latestIPTables
                      ELSE IF l.pc = "query" /\ ipt.err # "nil"
                        THEN LET lp == LocalPortsQueryFailed(l, ipt, latestIPTables)
                                 c  == collectEvent(st, lp, LocalSockets(unix))
                             IN  /\ curEv' = c.ev
                                 /\ st' = c.st
                                 /\ apc' = IF isEventEmpty(curEv') THEN "select" ELSE "send"
                                 /\ lpLocals' = NoLocalPorts
                                 /\ UNCHANGED latestIPTables
                      ELSE LET n == LocalPortsStep(l, worth, ipt, latestIPTables)
                           IN  /\ lpLocals' = <<n.l>>
                               /\ latestIPTables' = n.cache
                               /\ UNCHANGED <<apc, st, curEv>>
    /\ UNCHANGED <<chClosed, cancelled, tickerOpen, consumerGone, bigEndian,
                   worthCheckingIPTables, sinceLatestTrue>>
    /\ UNCHANGED <<startVars, diffVars, sampleVars, trackerVars, streamVars,
                   ctxVars, returnVars, callerVars>>

\* the read that one step of EventsCollect makes: the TCP tables, the flag,
\* the packet filter, /proc/net/unix, or none at the store and at the load
EventsCollectStep ==
    /\ apc = "collect"
    /\ IF lpLocals = NoLocalPorts
         THEN \E tcp \in TcpReads(bigEndian) :
                EventsCollect(tcp, FALSE, NotRead, NotRead)
         ELSE CASE lpLocals[1].pc = "branch" ->
                     \E worth \in FlagReads :
                       EventsCollect(NotRead, worth, NotRead, NotRead)
                [] lpLocals[1].pc = "query" ->
                     \E ipt \in Reads(IptEntries, MaxIpt) :
                       EventsCollect(NotRead, FALSE, ipt, NotRead)
                [] lpLocals[1].pc = "merge" ->
                     \E unix \in Reads(UnixEntries, MaxSock) :
                       EventsCollect(NotRead, FALSE, NotRead, unix)
                [] OTHER -> EventsCollect(NotRead, FALSE, NotRead, NotRead)

\* EventsSend that ends the loop after it has delivered an event with errors
EventsSend_ReturnsAfterError ==
    /\ apc = "send"
    /\ ~consumerGone
    /\ IF curEv.errors # <<>>
         THEN apc' = "returned" /\ tickerOpen' = FALSE /\ chClosed' = TRUE
         ELSE apc' = "select" /\ UNCHANGED <<tickerOpen, chClosed>>
    /\ curEv' = EmptyEvent
    /\ UNCHANGED <<st, cancelled, consumerGone, bigEndian,
                   worthCheckingIPTables, latestIPTables, sinceLatestTrue>>
    /\ UNCHANGED notAgent

\* part_001:456: ch <- ev, received by the consumer; ev is not used again
\* before the next cycle declares it anew (:453)
EventsSend ==
    /\ apc = "send"
    /\ ~consumerGone
    /\ apc' = "select"
    /\ curEv' = EmptyEvent
    /\ UNCHANGED <<st, chClosed, cancelled, tickerOpen, consumerGone, bigEndian,
                   worthCheckingIPTables, latestIPTables, sinceLatestTrue>>
    /\ UNCHANGED notAgent

\* EventsTick of a loop that hands its event to the consumer in the
\* background: the next tick is taken while the event is still pending
EventsTick_WhilePending ==
    /\ apc \in {"select", "send"}
    /\ tickerOpen
    /\ apc' = "collect"
    /\ UNCHANGED <<st, curEv, chClosed, cancelled, tickerOpen, consumerGone, bigEndian,
                   worthCheckingIPTables, latestIPTables, sinceLatestTrue>>
    /\ UNCHANGED notAgent

\* part_001:461-465: the select receives a tick
EventsTick ==
    /\ apc = "select"
    /\ tickerOpen
    /\ apc' = "collect"
    /\ UNCHANGED <<st, curEv, chClosed, cancelled, tickerOpen, consumerGone, bigEndian,
                   worthCheckingIPTables, latestIPTables, sinceLatestTrue>>
    /\ UNCHANGED notAgent

\* EventsReturn without the deferred tickerClose() of part_001:450
EventsReturn_NoTickerClose ==
    /\ apc = "select"
    /\ cancelled \/ ~tickerOpen
    /\ apc' = "returned"
    /\ chClosed' = TRUE
    /\ chCloses' = chCloses + 1
    /\ UNCHANGED <<st, curEv, cancelled, tickerOpen, consumerGone, bigEndian,
                   worthCheckingIPTables, latestIPTables, sinceLatestTrue>>
    /\ UNCHANGED <<startVars, diffVars, sampleVars, trackerVars, streamVars,
                   ctxVars, callerVars, flightVars, tickerCloses>>

\* part_001:459-463 with the deferred calls of :448 and :450: ctx is done or
\* the ticker channel is closed; Events returns
EventsReturn ==
    /\ apc = "select"
    /\ cancelled \/ ~tickerOpen
    /\ apc' = "returned"
    /\ tickerOpen' = FALSE
    /\ tickerCloses' = tickerCloses + 1
    /\ chClosed' = TRUE
    /\ chCloses' = chCloses + 1
    /\ UNCHANGED <<st, curEv, cancelled, consumerGone, bigEndian,
                   worthCheckingIPTables, latestIPTables, sinceLatestTrue>>
    /\ UNCHANGED <<startVars, diffVars, sampleVars, trackerVars, streamVars,
                   ctxVars, callerVars, flightVars>>

\* part_001:346-353: the receive loop got an audit message of type
\* AUDIT_NETFILTER_CFG
ReceiveNetfilterCfg ==
    /\ apc # "off"
    /\ worthCheckingIPTables' = TRUE
    /\ sinceLatestTrue' = 0
    /\ UNCHANGED <<apc, st, curEv, chClosed, cancelled, tickerOpen, consumerGone,
                   bigEndian, latestIPTables>>
    /\ UNCHANGED notAgent

\* part_001:329-337: the idle loop woke up from its sleep
IdleCheck ==
    /\ apc # "off"
    /\ worthCheckingIPTables' =
         (IF sinceLatestTrue >= iptablesIdle THEN FALSE ELSE worthCheckingIPTables)
    /\ UNCHANGED <<apc, st, curEv, chClosed, cancelled, tickerOpen, consumerGone,
                   bigEndian, latestIPTables, sinceLatestTrue>>
    /\ UNCHANGED notAgent

\* the guest's clock advances by one tick
AgentClock ==
    /\ apc # "off"
    /\ sinceLatestTrue < iptablesIdle
    /\ sinceLatestTrue' = sinceLatestTrue + 1
    /\ UNCHANGED <<apc, st, curEv, chClosed, cancelled, tickerOpen, consumerGone,
                   bigEndian, worthCheckingIPTables, latestIPTables>>
    /\ UNCHANGED notAgent

\* the caller of Events cancels ctx
Cancel ==
    /\ apc \notin {"off", "returned"}
    /\ ~cancelled
    /\ cancelled' = TRUE
    /\ UNCHANGED <<apc, st, curEv, chClosed, tickerOpen, consumerGone, bigEndian,
                   worthCheckingIPTables, latestIPTables, sinceLatestTrue>>
    /\ UNCHANGED notAgent

\* the ticker's channel is closed by its owner
TickerCloses ==
    /\ apc \notin {"off", "returned"}
    /\ tickerOpen
    /\ tickerOpen' = FALSE
    /\ UNCHANGED <<apc, st, curEv, chClosed, cancelled, consumerGone, bigEndian,
                   worthCheckingIPTables, latestIPTables, sinceLatestTrue>>
    /\ UNCHANGED notAgent

\* the consumer stops receiving from the channel
ConsumerLeaves ==
    /\ apc \notin {"off", "returned"}
    /\ ~consumerGone
    /\ consumerGone' = TRUE
    /\ UNCHANGED <<apc, st, curEv, chClosed, cancelled, tickerOpen, bigEndian,
                   worthCheckingIPTables, latestIPTables, sinceLatestTrue>>
    /\ UNCHANGED notAgent

\* the agent as New returns it (part_001:285-306), Events being called or not
AgentInit(pcs, endians) ==
    /\ apc \in pcs
    /\ st = [ports |-> <<>>, sockets |-> <<>>]
    /\ curEv = EmptyEvent
    /\ chClosed = FALSE
    /\ cancelled = FALSE
    /\ tickerOpen = TRUE
    /\ consumerGone = FALSE
    /\ bigEndian \in endians
    /\ worthCheckingIPTables = FALSE
    /\ latestIPTables = <<>>
    /\ sinceLatestTrue = iptablesIdle

AgentIdle == AgentInit({"off"}, {FALSE})

-----------------------------------------------------------------------------
(* pkg/guestagent: one call of LocalPorts, LocalSockets or Info *)

\* longest /proc/net/tcp listing and longest iptables rule list of a single call
MaxTcpSample == 2
MaxIptSample == 2

\* entries of iptables.GetPorts() and of a.latestIPTables for a single call:
\* the port of the first TCP entry at another address, and a port of its own
SampleIptEntries ==
    IptEntries \cup { [ip |-> "0.0.0.0", port |-> 8080] }

\* part_001:535-549, lp being what a.LocalPorts returned at :540. .info is
\* the *api.Info returned: empty for nil, else the one value pointed to.
\* .unixRead tells whether procnetunix.ParseFile was called.
Info(lp, unix) ==
    LET ls == LocalSockets(unix)
    IN  IF lp.err # "nil"
          THEN [info |-> <<>>, err |-> lp.err, cache |-> lp.cache,
                parsed |-> lp.parsed, queried |-> lp.queried, unixRead |-> FALSE]
        ELSE IF ls.err # "nil"
          THEN [info |-> <<>>, err |-> ls.err, cache |-> lp.cache,
                parsed |-> lp.parsed, queried |-> lp.queried, unixRead |-> TRUE]
        ELSE [info |-> <<[localPorts |-> lp.ports, localSockets |-> ls.sockets]>>,
              err |-> "nil", cache |-> lp.cache,
              parsed |-> lp.parsed, queried |-> lp.queried, unixRead |-> TRUE]

\* no method has been called
NoCall ==
    [call |-> "none", ports |-> <<>>, sockets |-> <<>>, info |-> <<>>,
     err |-> "nil", parsed |-> FALSE, queried |-> FALSE, unixRead |-> FALSE]

\* the result of a call of LocalPorts as the sample records it
LocalPortsResult(r) ==
    [NoCall EXCEPT !.call = "LocalPorts", !.ports = r.ports, !.err = r.err,
                   !.parsed = r.parsed, !.queried = r.queried]

\* a.LocalPorts(ctx), part_001:470-533, one statement at a time: the call up
\* to the RUnlock of :497, the read of the flag at :501, GetPorts (:502), the
\* store or the load of a.latestIPTables (:506-512), the merge and the return
\* (:515-532); a call that fails returns at once
CallLocalPorts ==
    /\ spc = "ready"
    /\ IF lpLocals = NoLocalPorts
         THEN LET r == LocalPorts(bigEndian, tcpTable, FALSE, NotRead, latestIPTables)
              IN  IF r.err # "nil"
                    THEN /\ sres' = LocalPortsResult(r)
                         /\ spc' = "done"
                         /\ UNCHANGED <<lpLocals, latestIPTables>>
                    ELSE /\ lpLocals' = <<LocalPortsEntered("LocalPorts", tcpTable)>>
                         /\ UNCHANGED <<spc, sres, latestIPTables>>
         ELSE LET l == lpLocals[1]
              IN  /\ l.call = "LocalPorts"
                  /\ IF l.pc = "merge"
                        THEN /\ sres' = LocalPortsResult(LocalPortsReturn(l, latestIPTables))
                             /\ spc' = "done"
                             /\ lpLocals' = NoLocalPorts
                             /\ UNCHANGED latestIPTables
                      ELSE IF l.pc = "query" /\ iptTable.err # "nil"
                        THEN /\ sres' = LocalPortsResult(
                                           LocalPortsQueryFailed(l, iptTable, latestIPTables))
                             /\ spc' = "done"
                             /\ lpLocals' = NoLocalPorts
                             /\ UNCHANGED latestIPTables
                      ELSE \E worth \in FlagReads :
                             LET n == LocalPortsStep(l, worth, iptTable, latestIPTables)
                             IN  /\ lpLocals' = <<n.l>>
                                 /\ latestIPTables' = n.cache
                                 /\ UNCHANGED <<spc, sres>>
    /\ UNCHANGED <<tcpTable, iptTable, unixTable>>
    /\ UNCHANGED <<apc, st, curEv, chClosed, cancelled, tickerOpen, consumerGone,
                   bigEndian, worthCheckingIPTables, sinceLatestTrue>>
    /\ UNCHANGED <<startVars, diffVars, trackerVars, streamVars,
                   ctxVars, returnVars, callerVars>>

\* a.LocalSockets(ctx), part_001:551-563
CallLocalSockets ==
    /\ spc = "ready"
    /\ lpLocals = NoLocalPorts
    /\ LET r == LocalSockets(unixTable)
       IN  sres' = [NoCall EXCEPT !.call = "LocalSockets", !.sockets = r.sockets,
                                 !.err = r.err, !.unixRead = TRUE]
    /\ spc' = "done"
    /\ UNCHANGED <<tcpTable, iptTable, unixTable>>
    /\ UNCHANGED agentVars
    /\ UNCHANGED notSample

\* the result of a call of Info as the sample records it
InfoResult(r) ==
    [NoCall EXCEPT !.call = "Info", !.info = r.info, !.err = r.err,
                   !.parsed = r.parsed, !.queried = r.queried,
                   !.unixRead = r.unixRead]

\* a.Info(ctx), part_001:535-549, one statement of its call of LocalPorts
\* (:540) at a time, as in CallLocalPorts; a call that fails makes Info
\* return at once; with the merge come LocalSockets (:544) and the return
CallInfo ==
    /\ spc = "ready"
    /\ IF lpLocals = NoLocalPorts
         THEN LET lp == LocalPorts(bigEndian, tcpTable, FALSE, NotRead, latestIPTables)
              IN  IF lp.err # "nil"
                    THEN /\ sres' = InfoResult(Info(lp, unixTable))
                         /\ spc' = "done"
                         /\ UNCHANGED <<lpLocals, latestIPTables>>
                    ELSE /\ lpLocals' = <<LocalPortsEntered("Info", tcpTable)>>
                         /\ UNCHANGED <<spc, sres, latestIPTables>>
         ELSE LET l == lpLocals[1]
              IN  /\ l.call = "Info"
                  /\ IF l.pc = "merge"
                        THEN /\ sres' = InfoResult(Info(LocalPortsReturn(l, latestIPTables),
                                                        unixTable))
                             /\ spc' = "done"
                             /\ lpLocals' = NoLocalPorts
                             /\ UNCHANGED latestIPTables
                      ELSE IF l.pc = "query" /\ iptTable.err # "nil"
                        THEN /\ sres' = InfoResult(Info(
                                           LocalPortsQueryFailed(l, iptTable, latestIPTables),
                                           unixTable))
                             /\ spc' = "done"
                             /\ lpLocals' = NoLocalPorts
                             /\ UNCHANGED latestIPTables
                      ELSE \E worth \in FlagReads :
                             LET n == LocalPortsStep(l, worth, iptTable, latestIPTables)
                             IN  /\ lpLocals' = <<n.l>>
                                 /\ latestIPTables' = n.cache
                                 /\ UNCHANGED <<spc, sres>>
    /\ UNCHANGED <<tcpTable, iptTable, unixTable>>
    /\ UNCHANGED <<apc, st, curEv, chClosed, cancelled, tickerOpen, consumerGone,
                   bigEndian, worthCheckingIPTables, sinceLatestTrue>>
    /\ UNCHANGED <<startVars, diffVars, trackerVars, streamVars,
                   ctxVars, returnVars, callerVars>>

\* the tables of the guest kernel and of its packet filter at the time of the call
SampleInit ==
    /\ spc = "ready"
    /\ tcpTable \in Reads(TcpEntries, MaxTcpSample)
    /\ iptTable \in Reads(SampleIptEntries, MaxIptSample)
    /\ unixTable \in Reads(UnixEntries, MaxSock)
    /\ sres = NoCall

SampleIdle ==
    /\ spc = "off"
    /\ tcpTable = NotRead
    /\ iptTable = NotRead
    /\ unixTable = NotRead
    /\ sres = NoCall

-----------------------------------------------------------------------------
(* pkg/guestagent: New, setWorthCheckingIPTablesRoutine and LocalPorts, step
   by step with their locks *)

\* a sync.RWMutex nobody holds
NoHolder == [writer |-> "none", readers |-> {}]

\* the locals of LocalPorts before it has run
NoLocals == [res |-> <<>>, worth |-> FALSE, branch |-> FALSE, ipts |-> <<>>]

\* New has returned nothing yet
NoReturn == [agent |-> FALSE, err |-> "pending"]

\* the largest time since latestTrue that is told apart, in ticks: latestTrue
\* starts as the zero time.Time, which is further back than any timeout
SinceCap == 2 * iptablesIdle + 1

\* what procnettcp.ParseFiles() and iptables.GetPorts() give a call of
\* LocalPorts that runs beside the tracker
TrackerTcpReads ==
    { [err |-> "nil", val |-> << [kind |-> "TCP", state |-> "TCPListen",
                                  ip |-> "127.0.0.1", port |-> 80] >>],
      [err |-> "readError", val |-> <<>>] }

TrackerIptReads ==
    { [err |-> "nil", val |-> << [ip |-> "0.0.0.0", port |-> 8080] >>],
      [err |-> "nil", val |-> <<>>],
      [err |-> "readError", val |-> <<>>] }

\* the types of message auditClient.Receive gives, or its error
AuditMsgs == {"AUDIT_NETFILTER_CFG", "AUDIT_OTHER", "receiveError"}

\* what New, the tracker and LocalPorts leave alone among the fields of the
\* agent and the tables
trackerFixed == <<apc, st, curEv, chClosed, cancelled, tickerOpen, consumerGone,
                  bigEndian, spc, unixTable>>

\* the values a read of the flag made without the lock may give: the one the
\* locked read saw, or one written since
UnlockedFlagReads == {lw.worth} \cup flagWrites \cup {worthCheckingIPTables}

\* New that starts the tracker before it sets up the audit client
New_StartsTrackerFirst(clientOk, statusOk, enabled, setOk) ==
    /\ npc = "new"
    /\ npc' = "done"
    /\ rpc' = "receive"
    /\ ipc' = "sleep"
    /\ LET err == IF ~clientOk THEN "newClientError"
                  ELSE IF ~statusOk THEN "getStatusError"
                  ELSE IF enabled = 0 /\ ~setOk THEN "setEnabledError"
                  ELSE "nil"
       IN  IF err = "nil"
             THEN /\ newRet' = [agent |-> TRUE, err |-> "nil"]
                  /\ lpc' = "idle"
             ELSE /\ newRet' = [agent |-> FALSE, err |-> err]
                  /\ UNCHANGED lpc
    /\ UNCHANGED <<lastMsg, slept, flagMu, cacheMu, lw, flagWrites,
                   worthCheckingIPTables, latestIPTables, sinceLatestTrue,
                   tcpTable, iptTable, sres>>
    /\ UNCHANGED trackerFixed
    /\ UNCHANGED notTracker

\* New that makes the agent with its flag set
New_FlagSet(clientOk, statusOk, enabled, setOk) ==
    /\ npc = "new"
    /\ npc' = "done"
    /\ LET err == IF ~clientOk THEN "newClientError"
                  ELSE IF ~statusOk THEN "getStatusError"
                  ELSE IF enabled = 0 /\ ~setOk THEN "setEnabledError"
                  ELSE "nil"
       IN  IF err = "nil"
             THEN /\ newRet' = [agent |-> TRUE, err |-> "nil"]
                  /\ rpc' = "receive"
                  /\ ipc' = "sleep"
                  /\ lpc' = "idle"
                  /\ worthCheckingIPTables' = TRUE
             ELSE /\ newRet' = [agent |-> FALSE, err |-> err]
                  /\ UNCHANGED <<rpc, ipc, lpc, worthCheckingIPTables>>
    /\ UNCHANGED <<lastMsg, slept, flagMu, cacheMu, lw, flagWrites,
                   latestIPTables, sinceLatestTrue, tcpTable, iptTable, sres>>
    /\ UNCHANGED trackerFixed
    /\ UNCHANGED notTracker

\* part_001:285-306: the audit client is made, its status read, auditing
\* enabled if it is not, and only then the tracker is started and the agent
\* returned
New(clientOk, statusOk, enabled, setOk) ==
    /\ npc = "new"
    /\ npc' = "done"
    /\ LET err == IF ~clientOk THEN "newClientError"
                  ELSE IF ~statusOk THEN "getStatusError"
                  ELSE IF enabled = 0 /\ ~setOk THEN "setEnabledError"
                  ELSE "nil"
       IN  IF err = "nil"
             THEN /\ newRet' = [agent |-> TRUE, err |-> "nil"]
                  /\ rpc' = "receive"
                  /\ ipc' = "sleep"
                  /\ lpc' = "idle"
             ELSE /\ newRet' = [agent |-> FALSE, err |-> err]
                  /\ UNCHANGED <<rpc, ipc, lpc>>
    /\ UNCHANGED <<lastMsg, slept, flagMu, cacheMu, lw, flagWrites,
                   worthCheckingIPTables, latestIPTables, sinceLatestTrue,
                   tcpTable, iptTable, sres>>
    /\ UNCHANGED trackerFixed
    /\ UNCHANGED notTracker

\* the receive loop without the switch on msg.Type of part_001:346-347
TrackerReceive_AnyType(m) ==
    /\ rpc = "receive"
    /\ lastMsg' = m
    /\ rpc' = IF m # "receiveError" THEN "lock" ELSE "receive"
    /\ UNCHANGED <<npc, newRet, ipc, slept, flagMu, cacheMu, lpc, lw,
                   flagWrites, worthCheckingIPTables, latestIPTables,
                   sinceLatestTrue, tcpTable, iptTable, sres>>
    /\ UNCHANGED trackerFixed
    /\ UNCHANGED notTracker

\* part_001:341-353: auditClient.Receive returns; an error and a message of
\* another type lead back to Receive
TrackerReceive(m) ==
    /\ rpc = "receive"
    /\ lastMsg' = m
    /\ rpc' = IF m = "AUDIT_NETFILTER_CFG" THEN "lock" ELSE "receive"
    /\ UNCHANGED <<npc, newRet, ipc, slept, flagMu, cacheMu, lpc, lw,
                   flagWrites, worthCheckingIPTables, latestIPTables,
                   sinceLatestTrue, tcpTable, iptTable, sres>>
    /\ UNCHANGED trackerFixed
    /\ UNCHANGED notTracker

\* part_001:348: a.worthCheckingIPTablesMu.Lock() in the receive loop
TrackerLock ==
    /\ rpc = "lock"
    /\ flagMu = NoHolder
    /\ flagMu' = [NoHolder EXCEPT !.writer = "recv"]
    /\ rpc' = "write"
    /\ UNCHANGED <<npc, newRet, ipc, lastMsg, slept, cacheMu, lpc, lw,
                   flagWrites, worthCheckingIPTables, latestIPTables,
                   sinceLatestTrue, tcpTable, iptTable, sres>>
    /\ UNCHANGED trackerFixed
    /\ UNCHANGED notTracker

\* part_001:349-352: the flag is set, latestTrue is now, the lock is released
TrackerWrite ==
    /\ rpc = "write"
    /\ worthCheckingIPTables' = TRUE
    /\ sinceLatestTrue' = 0
    /\ flagWrites' = IF lpc = "branch" THEN flagWrites \cup {TRUE} ELSE flagWrites
    /\ flagMu' = NoHolder
    /\ rpc' = "receive"
    /\ UNCHANGED <<npc, newRet, ipc, lastMsg, slept, cacheMu, lpc, lw,
                   latestIPTables, tcpTable, iptTable, sres>>
    /\ UNCHANGED trackerFixed
    /\ UNCHANGED notTracker

\* part_001:329: time.Sleep(iptablesIdle) returns
IdleWake ==
    /\ ipc = "sleep"
    /\ slept >= iptablesIdle
    /\ ipc' = "lock"
    /\ UNCHANGED <<npc, newRet, rpc, lastMsg, slept, flagMu, cacheMu, lpc,
                   lw, flagWrites, worthCheckingIPTables, latestIPTables,
                   sinceLatestTrue, tcpTable, iptTable, sres>>
    /\ UNCHANGED trackerFixed
    /\ UNCHANGED notTracker

\* part_001:330: a.worthCheckingIPTablesMu.Lock() in the idle loop
IdleLock ==
    /\ ipc = "lock"
    /\ flagMu = NoHolder
    /\ flagMu' = [NoHolder EXCEPT !.writer = "idle"]
    /\ ipc' = "check"
    /\ UNCHANGED <<npc, newRet, rpc, lastMsg, slept, cacheMu, lpc, lw,
                   flagWrites, worthCheckingIPTables, latestIPTables,
                   sinceLatestTrue, tcpTable, iptTable, sres>>
    /\ UNCHANGED trackerFixed
    /\ UNCHANGED notTracker

\* the idle loop with ">" for the ">=" of part_001:333
IdleDecay_StrictlyLater ==
    /\ ipc = "check"
    /\ IF sinceLatestTrue > iptablesIdle
         THEN /\ worthCheckingIPTables' = FALSE
              /\ flagWrites' = IF lpc = "branch" THEN flagWrites \cup {FALSE}
                               ELSE flagWrites
         ELSE UNCHANGED <<worthCheckingIPTables, flagWrites>>
    /\ flagMu' = NoHolder
    /\ ipc' = "sleep"
    /\ slept' = 0
    /\ UNCHANGED <<npc, newRet, rpc, lastMsg, cacheMu, lpc, lw,
                   latestIPTables, sinceLatestTrue, tcpTable, iptTable, sres>>
    /\ UNCHANGED trackerFixed
    /\ UNCHANGED notTracker

\* part_001:332-337: the flag is cleared if latestTrue is iptablesIdle or
\* more ago, the lock is released, the loop sleeps again
IdleDecay ==
    /\ ipc = "check"
    /\ IF sinceLatestTrue >= iptablesIdle
         THEN /\ worthCheckingIPTables' = FALSE
              /\ flagWrites' = IF lpc = "branch" THEN flagWrites \cup {FALSE}
                               ELSE flagWrites
         ELSE UNCHANGED <<worthCheckingIPTables, flagWrites>>
    /\ flagMu' = NoHolder
    /\ ipc' = "sleep"
    /\ slept' = 0
    /\ UNCHANGED <<npc, newRet, rpc, lastMsg, cacheMu, lpc, lw,
                   latestIPTables, sinceLatestTrue, tcpTable, iptTable, sres>>
    /\ UNCHANGED trackerFixed
    /\ UNCHANGED notTracker

\* a tick of the guest's clock; the idle loop wakes up as soon as it has
\* slept iptablesIdle, everything else takes no time
TrackerClock ==
    /\ ipc = "sleep"
    /\ slept < iptablesIdle
    /\ slept' = slept + 1
    /\ sinceLatestTrue' = IF sinceLatestTrue < SinceCap THEN sinceLatestTrue + 1
                          ELSE sinceLatestTrue
    /\ UNCHANGED <<npc, newRet, rpc, ipc, lastMsg, flagMu, cacheMu, lpc, lw,
                   flagWrites, worthCheckingIPTables, latestIPTables,
                   tcpTable, iptTable, sres>>
    /\ UNCHANGED trackerFixed
    /\ UNCHANGED notTracker

\* a caller calls a.LocalPorts(ctx)
LocalPortsCall ==
    /\ lpc \in {"idle", "done"}
    /\ lpc' = "begin"
    /\ lw' = NoLocals
    /\ sres' = NoCall
    /\ tcpTable' = NotRead
    /\ iptTable' = NotRead
    /\ UNCHANGED <<npc, newRet, rpc, ipc, lastMsg, slept, flagMu, cacheMu,
                   flagWrites, worthCheckingIPTables, latestIPTables,
                   sinceLatestTrue>>
    /\ UNCHANGED trackerFixed
    /\ UNCHANGED notTracker

\* part_001:471-493: the byte order is tested, the TCP tables are read and
\* the listening entries are put in res
LocalPortsParse(tcp) ==
    /\ lpc = "begin"
    /\ IF bigEndian
         THEN /\ sres' = [NoCall EXCEPT !.call = "LocalPorts", !.err = "bigEndian"]
              /\ lpc' = "done"
              /\ UNCHANGED <<tcpTable, lw>>
         ELSE /\ tcpTable' = tcp
              /\ IF tcp.err # "nil"
                   THEN /\ sres' = [NoCall EXCEPT !.call = "LocalPorts",
                                                 !.err = tcp.err, !.parsed = TRUE]
                        /\ lpc' = "done"
                        /\ UNCHANGED lw
                   ELSE /\ lw' = [lw EXCEPT !.res = listening(tcp.val)]
                        /\ lpc' = "rlock"
                        /\ UNCHANGED sres
    /\ UNCHANGED <<npc, newRet, rpc, ipc, lastMsg, slept, flagMu, cacheMu,
                   flagWrites, worthCheckingIPTables, latestIPTables,
                   sinceLatestTrue, iptTable>>
    /\ UNCHANGED trackerFixed
    /\ UNCHANGED notTracker

\* part_001:495: a.worthCheckingIPTablesMu.RLock()
LocalPortsRLock ==
    /\ lpc = "rlock"
    /\ flagMu.writer = "none"
    /\ flagMu' = [flagMu EXCEPT !.readers = @ \cup {"LocalPorts"}]
    /\ lpc' = "rread"
    /\ UNCHANGED <<npc, newRet, rpc, ipc, lastMsg, slept, cacheMu, lw,
                   flagWrites, worthCheckingIPTables, latestIPTables,
                   sinceLatestTrue, tcpTable, iptTable, sres>>
    /\ UNCHANGED trackerFixed
    /\ UNCHANGED notTracker

\* the locked read with its RUnlock deferred to the return of LocalPorts
LocalPortsReadFlag_KeepsLock ==
    /\ lpc = "rread"
    /\ lw' = [lw EXCEPT !.worth = worthCheckingIPTables]
    /\ flagWrites' = {}
    /\ lpc' = "branch"
    /\ UNCHANGED <<npc, newRet, rpc, ipc, lastMsg, slept, flagMu, cacheMu,
                   worthCheckingIPTables, latestIPTables, sinceLatestTrue,
                   tcpTable, iptTable, sres>>
    /\ UNCHANGED trackerFixed
    /\ UNCHANGED notTracker

\* part_001:496-498: the flag is copied to the local and the lock released
LocalPortsReadFlag ==
    /\ lpc = "rread"
    /\ lw' = [lw EXCEPT !.worth = worthCheckingIPTables]
    /\ flagMu' = [flagMu EXCEPT !.readers = @ \ {"LocalPorts"}]
    /\ flagWrites' = {}
    /\ lpc' = "branch"
    /\ UNCHANGED <<npc, newRet, rpc, ipc, lastMsg, slept, cacheMu,
                   worthCheckingIPTables, latestIPTables, sinceLatestTrue,
                   tcpTable, iptTable, sres>>
    /\ UNCHANGED trackerFixed
    /\ UNCHANGED notTracker

\* the branch of part_001:501 with its two arms exchanged
LocalPortsBranch_Inverted(v) ==
    /\ lpc = "branch"
    /\ v \in UnlockedFlagReads
    /\ lw' = [lw EXCEPT !.branch = v]
    /\ flagWrites' = {}
    /\ lpc' = IF v THEN "crlock" ELSE "query"
    /\ UNCHANGED <<npc, newRet, rpc, ipc, lastMsg, slept, flagMu, cacheMu,
                   worthCheckingIPTables, latestIPTables, sinceLatestTrue,
                   tcpTable, iptTable, sres>>
    /\ UNCHANGED trackerFixed
    /\ UNCHANGED notTracker

\* part_001:501: "if a.worthCheckingIPTables" reads the field, not the local,
\* and no lock is held: a read that races with the tracker's writes
LocalPortsBranch(v) ==
    /\ lpc = "branch"
    /\ v \in UnlockedFlagReads
    /\ lw' = [lw EXCEPT !.branch = v]
    /\ flagWrites' = {}
    /\ lpc' = IF v THEN "query" ELSE "crlock"
    /\ UNCHANGED <<npc, newRet, rpc, ipc, lastMsg, slept, flagMu, cacheMu,
                   worthCheckingIPTables, latestIPTables, sinceLatestTrue,
                   tcpTable, iptTable, sres>>
    /\ UNCHANGED trackerFixed
    /\ UNCHANGED notTracker

\* part_001:502-505: iptables.GetPorts(); on an error res is returned with it
LocalPortsQuery(ipt) ==
    /\ lpc = "query"
    /\ iptTable' = ipt
    /\ IF ipt.err # "nil"
         THEN /\ sres' = [NoCall EXCEPT !.call = "LocalPorts", !.ports = lw.res,
                                       !.err = ipt.err, !.parsed = TRUE,
                                       !.queried = TRUE]
              /\ lpc' = "done"
              /\ UNCHANGED lw
         ELSE /\ lw' = [lw EXCEPT !.ipts = ipt.val]
              /\ lpc' = "clock"
              /\ UNCHANGED sres
    /\ UNCHANGED <<npc, newRet, rpc, ipc, lastMsg, slept, flagMu, cacheMu,
                   flagWrites, worthCheckingIPTables, latestIPTables,
                   sinceLatestTrue, tcpTable>>
    /\ UNCHANGED trackerFixed
    /\ UNCHANGED notTracker

\* part_001:506: a.latestIPTablesMu.Lock()
LocalPortsCacheLock ==
    /\ lpc = "clock"
    /\ cacheMu = NoHolder
    /\ cacheMu' = [NoHolder EXCEPT !.writer = "LocalPorts"]
    /\ lpc' = "cstore"
    /\ UNCHANGED <<npc, newRet, rpc, ipc, lastMsg, slept, flagMu, lw,
                   flagWrites, worthCheckingIPTables, latestIPTables,
                   sinceLatestTrue, tcpTable, iptTable, sres>>
    /\ UNCHANGED trackerFixed
    /\ UNCHANGED notTracker

\* part_001:507-508: the fresh list replaces the cache, the lock is released
LocalPortsCacheStore ==
    /\ lpc = "cstore"
    /\ latestIPTables' = lw.ipts
    /\ cacheMu' = NoHolder
    /\ lpc' = "merge"
    /\ UNCHANGED <<npc, newRet, rpc, ipc, lastMsg, slept, flagMu, lw,
                   flagWrites, worthCheckingIPTables, sinceLatestTrue,
                   tcpTable, iptTable, sres>>
    /\ UNCHANGED trackerFixed
    /\ UNCHANGED notTracker

\* part_001:510: a.latestIPTablesMu.RLock()
LocalPortsCacheRLock ==
    /\ lpc = "crlock"
    /\ cacheMu.writer = "none"
    /\ cacheMu' = [cacheMu EXCEPT !.readers = @ \cup {"LocalPorts"}]
    /\ lpc' = "cload"
    /\ UNCHANGED <<npc, newRet, rpc, ipc, lastMsg, slept, flagMu, lw,
                   flagWrites, worthCheckingIPTables, latestIPTables,
                   sinceLatestTrue, tcpTable, iptTable, sres>>
    /\ UNCHANGED trackerFixed
    /\ UNCHANGED notTracker

\* part_001:511-512: the cached list is taken, the lock is released
LocalPortsCacheLoad ==
    /\ lpc = "cload"
    /\ lw' = [lw EXCEPT !.ipts = latestIPTables]
    /\ cacheMu' = [cacheMu EXCEPT !.readers = @ \ {"LocalPorts"}]
    /\ lpc' = "merge"
    /\ UNCHANGED <<npc, newRet, rpc, ipc, lastMsg, slept, flagMu, flagWrites,
                   worthCheckingIPTables, latestIPTables, sinceLatestTrue,
                   tcpTable, iptTable, sres>>
    /\ UNCHANGED trackerFixed
    /\ UNCHANGED notTracker

\* part_001:515-532: the rules are merged into res, which is returned
LocalPortsMerge ==
    /\ lpc = "merge"
    /\ sres' = [NoCall EXCEPT !.call = "LocalPorts",
                             !.ports = mergeIPTables(lw.res, lw.ipts),
                             !.parsed = TRUE, !.queried = lw.branch]
    /\ lpc' = "done"
    /\ UNCHANGED <<npc, newRet, rpc, ipc, lastMsg, slept, flagMu, cacheMu,
                   lw, flagWrites, worthCheckingIPTables, latestIPTables,
                   sinceLatestTrue, tcpTable, iptTable>>
    /\ UNCHANGED trackerFixed
    /\ UNCHANGED notTracker

\* New has not been called
TrackerIdle ==
    /\ npc = "off"
    /\ newRet = NoReturn
    /\ rpc = "off"
    /\ ipc = "off"
    /\ lastMsg = "none"
    /\ slept = 0
    /\ flagMu = NoHolder
    /\ cacheMu = NoHolder
    /\ lpc = "off"
    /\ lw = NoLocals
    /\ flagWrites = {}

\* the consumer has received nothing
StreamIdle ==
    view = [ports |-> {}, sockets |-> {}]

-----------------------------------------------------------------------------
(* The consumer of Events: the view it builds from the events it receives *)

\* longest /proc/net/tcp and /proc/net/unix listing of a cycle of the stream
MaxStream == 2

\* entries of procnetunix.ParseFile() the stream's listings are drawn from:
\* two sockets that LocalSockets reports and one that it does not
StreamUnixEntries ==
    UnixEntries \cup { [state |-> "StateUnconnected", path |-> "/run/b.sock"] }

\* a read that does not fail
OkReads(S, n) == { [err |-> "nil", val |-> q] : q \in SeqsUpTo(S, n) }

\* the consumer applies an event to its view: the added entries are put in,
\* the removed entries are taken out
applyEvent(v, ev) ==
    [ports   |-> (v.ports \cup Range(ev.localPortsAdded))
                    \ Range(ev.localPortsRemoved),
     sockets |-> (v.sockets \cup Range(ev.localSocketsAdded))
                    \ Range(ev.localSocketsRemoved)]

\* part_001:453-457: one step of a cycle of Events in which no read fails
StreamCollect ==
    /\ apc = "collect"
    /\ IF lpLocals = NoLocalPorts
         THEN \E tcp \in OkReads(TcpEntries, MaxStream) :
                EventsCollect(tcp, FALSE, NotRead, NotRead)
         ELSE CASE lpLocals[1].pc = "branch" ->
                     \E worth \in FlagReads :
                       EventsCollect(NotRead, worth, NotRead, NotRead)
                [] lpLocals[1].pc = "query" ->
                     \E ipt \in OkReads(IptEntries, MaxIpt) :
                       EventsCollect(NotRead, FALSE, ipt, NotRead)
                [] lpLocals[1].pc = "merge" ->
                     \E unix \in OkReads(StreamUnixEntries, MaxStream) :
                       EventsCollect(NotRead, FALSE, NotRead, unix)
                [] OTHER -> EventsCollect(NotRead, FALSE, NotRead, NotRead)

\* part_001:456: ch <- ev, and the consumer applies the event it receives
StreamReceive ==
    /\ apc = "send"
    /\ ~consumerGone
    /\ view' = applyEvent(view, curEv)
    /\ apc' = "select"
    /\ curEv' = EmptyEvent
    /\ UNCHANGED <<st, chClosed, cancelled, tickerOpen, consumerGone, bigEndian,
                   worthCheckingIPTables, latestIPTables, sinceLatestTrue>>
    /\ UNCHANGED <<startVars, diffVars, sampleVars, trackerVars,
                   ctxVars, returnVars, callerVars, flightVars>>

-----------------------------------------------------------------------------
(* Idle values of the context of Start, of the deferred calls of Events and
   of the concurrent callers of LocalPorts *)

\* the callers of LocalPorts that can run at the same time: the Events loop
\* (collectEvent, part_001:415) and Info (part_001:540)
Callers == {"Events", "Info"}

\* a caller that is not in LocalPorts
NoCaller == [pc |-> "idle", ipts |-> <<>>, err |-> "nil"]

\* ctx is not done
CtxIdle == ctxDone = FALSE

\* Events has made none of its deferred calls
ReturnIdle == chCloses = 0 /\ tickerCloses = 0

\* no call of LocalPorts is in flight
FlightIdle == lpLocals = NoLocalPorts

\* nobody is in LocalPorts
CallersIdle == callers = [c \in Callers |-> NoCaller]

-----------------------------------------------------------------------------
(* LocalPorts called by Events and by Info at the same time: the branch on the
   flag and the cache, part_001:500-513 *)

\* what the concurrent calls of LocalPorts and the writes of the flag never touch
callerFixed ==
    <<startVars, diffVars, streamVars, ctxVars, returnVars, flightVars,
      apc, st, curEv, chClosed, cancelled, tickerOpen, consumerGone, bigEndian,
      sinceLatestTrue, spc, tcpTable, unixTable, sres,
      npc, newRet, rpc, ipc, lastMsg, slept, flagMu, lpc, lw, flagWrites>>

\* part_001:470-500: a caller enters LocalPorts; it returns the error on a
\* big-endian host (:471-473) and when procnettcp.ParseFiles fails (:475-478),
\* and else comes to "var ipts"
CallerEnter(c, tcp) ==
    /\ callers[c].pc \in {"idle", "done"}
    /\ callers' = [callers EXCEPT ![c] =
                      IF bigEndian
                        THEN [pc |-> "done", ipts |-> <<>>, err |-> "bigEndian"]
                      ELSE IF tcp.err # "nil"
                        THEN [pc |-> "done", ipts |-> <<>>, err |-> tcp.err]
                      ELSE [pc |-> "branch", ipts |-> <<>>, err |-> "nil"]]
    /\ UNCHANGED <<latestIPTables, cacheMu, iptTable, worthCheckingIPTables>>
    /\ UNCHANGED callerFixed

\* part_001:501: if a.worthCheckingIPTables
CallerBranch(c) ==
    /\ callers[c].pc = "branch"
    /\ callers' = [callers EXCEPT ![c].pc =
                      IF worthCheckingIPTables THEN "query" ELSE "crlock"]
    /\ UNCHANGED <<latestIPTables, cacheMu, iptTable, worthCheckingIPTables>>
    /\ UNCHANGED callerFixed

\* part_001:502-505: ipts, err = iptables.GetPorts(); an error is returned
CallerGetPorts(c, ipt) ==
    /\ callers[c].pc = "query"
    /\ iptTable' = ipt
    /\ callers' = [callers EXCEPT ![c] =
                      IF ipt.err # "nil"
                        THEN [pc |-> "done", ipts |-> <<>>, err |-> ipt.err]
                        ELSE [pc |-> "clock", ipts |-> ipt.val, err |-> "nil"]]
    /\ UNCHANGED <<latestIPTables, cacheMu, worthCheckingIPTables>>
    /\ UNCHANGED callerFixed

\* part_001:506: a.latestIPTablesMu.Lock()
CallerCacheLock(c) ==
    /\ callers[c].pc = "clock"
    /\ cacheMu = NoHolder
    /\ cacheMu' = [writer |-> c, readers |-> {}]
    /\ callers' = [callers EXCEPT ![c].pc = "cstore"]
    /\ UNCHANGED <<latestIPTables, iptTable, worthCheckingIPTables>>
    /\ UNCHANGED callerFixed

\* part_001:507-508: a.latestIPTables = ipts; Unlock()
CallerCacheStore(c) ==
    /\ callers[c].pc = "cstore"
    /\ latestIPTables' = callers[c].ipts
    /\ cacheMu' = NoHolder
    /\ callers' = [callers EXCEPT ![c].pc = "done"]
    /\ UNCHANGED <<iptTable, worthCheckingIPTables>>
    /\ UNCHANGED callerFixed

\* part_001:510: a.latestIPTablesMu.RLock()
CallerCacheRLock(c) ==
    /\ callers[c].pc = "crlock"
    /\ cacheMu.writer = "none"
    /\ cacheMu' = [cacheMu EXCEPT !.readers = @ \cup {c}]
    /\ callers' = [callers EXCEPT ![c].pc = "cload"]
    /\ UNCHANGED <<latestIPTables, iptTable, worthCheckingIPTables>>
    /\ UNCHANGED callerFixed

\* part_001:511-512: ipts = a.latestIPTables; RUnlock()
CallerCacheLoad(c) ==
    /\ callers[c].pc = "cload"
    /\ cacheMu' = [cacheMu EXCEPT !.readers = @ \ {c}]
    /\ callers' = [callers EXCEPT ![c] = [pc |-> "done", ipts |-> latestIPTables,
                                          err |-> "nil"]]
    /\ UNCHANGED <<latestIPTables, iptTable, worthCheckingIPTables>>
    /\ UNCHANGED callerFixed

\* part_001:335, :350: the tracker writes the flag
TrackerSetsFlag(v) ==
    /\ worthCheckingIPTables # v
    /\ worthCheckingIPTables' = v
    /\ UNCHANGED <<latestIPTables, cacheMu, iptTable, callers>>
    /\ UNCHANGED callerFixed

-----------------------------------------------------------------------------
(* watchHostAgentEvents, start.go:139-188 *)

\* onEvent with the Running branch tested before the Exiting branch
onEvent_RunningFirst(loc, ev) ==
    LET report == ~loc.printedSSHLocalPort /\ ev.sshLocalPort # 0
        loc1 == [loc EXCEPT
                   !.printedSSHLocalPort = @ \/ report,
                   !.portReports = IF report THEN @ + 1 ELSE @,
                   !.errorLogs = IF Len(ev.errors) > 0 THEN @ + 1 ELSE @]
    IN  IF ev.running
          THEN IF ev.degraded
                 THEN [loc1 EXCEPT !.receivedRunningEvent = TRUE,
                                   !.err = "degraded", !.stop = TRUE]
                 ELSE [loc1 EXCEPT !.receivedRunningEvent = TRUE,
                                   !.err = "nil", !.stop = TRUE]
        ELSE IF ev.exiting
          THEN [loc1 EXCEPT !.err = "exiting", !.stop = TRUE]
        ELSE [loc1 EXCEPT !.stop = FALSE]

\* onEvent without the "return true" of the degraded branch
onEvent_DegradedContinues(loc, ev) ==
    LET report == ~loc.printedSSHLocalPort /\ ev.sshLocalPort # 0
        loc1 == [loc EXCEPT
                   !.printedSSHLocalPort = @ \/ report,
                   !.portReports = IF report THEN @ + 1 ELSE @,
                   !.errorLogs = IF Len(ev.errors) > 0 THEN @ + 1 ELSE @]
    IN  IF ev.exiting
          THEN [loc1 EXCEPT !.err = "exiting", !.stop = TRUE]
        ELSE IF ev.running
          THEN IF ev.degraded
                 THEN [loc1 EXCEPT !.receivedRunningEvent = TRUE,
                                   !.err = "degraded", !.stop = FALSE]
                 ELSE [loc1 EXCEPT !.receivedRunningEvent = TRUE,
                                   !.err = "nil", !.stop = TRUE]
        ELSE [loc1 EXCEPT !.stop = FALSE]

\* onEvent without the printedSSHLocalPort test of start.go:149
onEvent_ReportsEveryPort(loc, ev) ==
    LET report == ev.sshLocalPort # 0
        loc1 == [loc EXCEPT
                   !.printedSSHLocalPort = @ \/ report,
                   !.portReports = IF report THEN @ + 1 ELSE @,
                   !.errorLogs = IF Len(ev.errors) > 0 THEN @ + 1 ELSE @]
    IN  IF ev.exiting
          THEN [loc1 EXCEPT !.err = "exiting", !.stop = TRUE]
        ELSE IF ev.running
          THEN IF ev.degraded
                 THEN [loc1 EXCEPT !.receivedRunningEvent = TRUE,
                                   !.err = "degraded", !.stop = TRUE]
                 ELSE [loc1 EXCEPT !.receivedRunningEvent = TRUE,
                                   !.err = "nil", !.stop = TRUE]
        ELSE [loc1 EXCEPT !.stop = FALSE]

\* onEvent that takes an event with errors for a terminal one
onEvent_ErrorsStop(loc, ev) ==
    LET report == ~loc.printedSSHLocalPort /\ ev.sshLocalPort # 0
        loc1 == [loc EXCEPT
                   !.printedSSHLocalPort = @ \/ report,
                   !.portReports = IF report THEN @ + 1 ELSE @,
                   !.errorLogs = IF Len(ev.errors) > 0 THEN @ + 1 ELSE @]
    IN  IF ev.exiting
          THEN [loc1 EXCEPT !.err = "exiting", !.stop = TRUE]
        ELSE IF ev.running
          THEN IF ev.degraded
                 THEN [loc1 EXCEPT !.receivedRunningEvent = TRUE,
                                   !.err = "degraded", !.stop = TRUE]
                 ELSE [loc1 EXCEPT !.receivedRunningEvent = TRUE,
                                   !.err = "nil", !.stop = TRUE]
        ELSE IF Len(ev.errors) > 0
          THEN [loc1 EXCEPT !.err = "eventErrors", !.stop = TRUE]
        ELSE [loc1 EXCEPT !.stop = FALSE]

\* start.go:148-173: the callback handed to WatchEvents; .stop is its result
onEvent(loc, ev) ==
    LET report == ~loc.printedSSHLocalPort /\ ev.sshLocalPort # 0
        loc1 == [loc EXCEPT
                   !.printedSSHLocalPort = @ \/ report,
                   !.portReports = IF report THEN @ + 1 ELSE @,
                   !.errorLogs = IF Len(ev.errors) > 0 THEN @ + 1 ELSE @]
    IN  IF ev.exiting
          THEN [loc1 EXCEPT !.err = "exiting", !.stop = TRUE]
        ELSE IF ev.running
          THEN IF ev.degraded
                 THEN [loc1 EXCEPT !.receivedRunningEvent = TRUE,
                                   !.err = "degraded", !.stop = TRUE]
                 ELSE [loc1 EXCEPT !.receivedRunningEvent = TRUE,
                                   !.err = "nil", !.stop = TRUE]
        ELSE [loc1 EXCEPT !.stop = FALSE]

\* watchResult without the receivedRunningEvent test of start.go:183
watchResult_NoRunningCheck(xerr, loc) ==
    IF xerr # "nil" THEN xerr
    ELSE IF loc.err # "nil" THEN loc.err
    ELSE "nil"

\* start.go:175-187: the return value, from what WatchEvents returned (xerr)
\* and the locals onEvent left behind
watchResult(xerr, loc) ==
    IF xerr # "nil" THEN xerr
    ELSE IF loc.err # "nil" THEN loc.err
    ELSE IF ~loc.receivedRunningEvent THEN "noRunningEvent"
    ELSE "nil"

\* hostagentapi.WatchEvents handing the next line of ha.stdout.log to onEvent;
\* it returns nil as soon as onEvent returns true
WatchLine(ev) ==
    /\ wpc = "watch"
    /\ processed < logLines
    /\ LET loc == [onEvent(w, ev) EXCEPT
                     !.portRepeated = /\ w.printedSSHLocalPort
                                      /\ ev.sshLocalPort # 0
                                      /\ ~onEvent(w, ev).stop]
       IN  /\ w' = loc
           /\ IF loc.stop
                THEN /\ wend' = "stop"
                     /\ wres' = watchResult("nil", loc)
                     /\ wpc' = "send"
                ELSE UNCHANGED <<wend, wres, wpc>>
    /\ processed' = processed + 1
    /\ lastEv' = ev
    /\ UNCHANGED notStart
    /\ UNCHANGED <<procAtReturn, pc, ret, winner, pidfile, proc, exitStatus, now,
                   hsDeadline,
                   watchDeadline, logLines, xpc>>

\* hostagentapi.WatchEvents returning without onEvent having returned true:
\* ctx2's deadline has passed, the tail of the log ended, or the log could not
\* be tailed or decoded (xerr)
WatchEventsEnd(cause, xerr) ==
    /\ wpc = "watch"
    /\ cause = "deadline" => now >= watchDeadline
    /\ cause = "xerr" => xerr # "nil"
    /\ wend' = cause
    /\ wres' = watchResult(xerr, w)
    /\ wpc' = "send"
    /\ UNCHANGED notStart
    /\ UNCHANGED <<procAtReturn, pc, ret, winner, pidfile, proc, exitStatus, now,
                   hsDeadline,
                   watchDeadline, logLines, processed, lastEv, w, xpc>>

\* start.go:106: close(watchErrCh), after the send at :105 was received
WatchClose ==
    /\ wpc = "close"
    /\ wpc' = "done"
    /\ UNCHANGED notStart
    /\ UNCHANGED <<procAtReturn, pc, ret, winner, pidfile, proc, exitStatus, now,
                   hsDeadline,
                   watchDeadline, logLines, processed, lastEv, w, wend, wres, xpc>>

-----------------------------------------------------------------------------
(* the exit-wait goroutine, start.go:109-112 *)

\* start.go:110: haCmd.Wait() returns once the subprocess has exited
WaitReturn ==
    /\ xpc = "wait"
    /\ proc = "exited"
    /\ xpc' = "send"
    /\ UNCHANGED notStart
    /\ UNCHANGED <<procAtReturn, pc, ret, winner, pidfile, proc, exitStatus, now,
                   hsDeadline,
                   watchDeadline, logLines, processed, lastEv, w, wend, wres, wpc>>

\* start.go:111: close(waitErrCh), after the send at :110 was received
WaitClose ==
    /\ xpc = "close"
    /\ xpc' = "done"
    /\ UNCHANGED notStart
    /\ UNCHANGED <<procAtReturn, pc, ret, winner, pidfile, proc, exitStatus, now,
                   hsDeadline,
                   watchDeadline, logLines, processed, lastEv, w, wend, wres, wpc>>

-----------------------------------------------------------------------------
(* func Start, start.go:38-123 *)

\* StartStat without the test of start.go:40: it goes on whatever os.Stat says
StartStat_IgnoresPidfile ==
    /\ pc = "begin"
    /\ pc' = "prepare" /\ UNCHANGED ret
    /\ UNCHANGED notStart
    /\ UNCHANGED <<winner, pidfile, proc, exitStatus, now, hsDeadline,
                   watchDeadline, logLines, processed, lastEv, w, wend, wres, wpc, xpc>>
    /\ procAtReturn' = (IF pc' = "returned" THEN proc' ELSE procAtReturn)

\* start.go:39-42: the pidfile check
StartStat ==
    /\ pc = "begin"
    /\ IF pidfile
         THEN pc' = "returned" /\ ret' = "seemsRunning"
         ELSE pc' = "prepare" /\ UNCHANGED ret
    /\ UNCHANGED notStart
    /\ UNCHANGED <<winner, pidfile, proc, exitStatus, now, hsDeadline,
                   watchDeadline, logLines, processed, lastEv, w, wend, wres, wpc, xpc>>
    /\ procAtReturn' = (IF pc' = "returned" THEN proc' ELSE procAtReturn)

\* start.go:44-78: LoadYAML, samba.InitConfig, ensureDisk, os.Executable, then
\* the two log files are removed and created anew; any of it may fail. A
\* failure up to the removal of ha.stdout.log (:44-65) leaves the old log; a
\* later one (:66-77) returns after the log was removed at :63
StartPrepare(ok) ==
    /\ pc = "prepare"
    /\ IF ok
         THEN pc' = "spawn" /\ logLines' = 0 /\ UNCHANGED ret
         ELSE pc' = "returned" /\ ret' = "prepareError" /\ logLines' \in {logLines, 0}
    /\ UNCHANGED notStart
    /\ UNCHANGED <<winner, pidfile, proc, exitStatus, now, hsDeadline,
                   watchDeadline, processed, lastEv, w, wend, wres, wpc, xpc>>
    /\ procAtReturn' = (IF pc' = "returned" THEN proc' ELSE procAtReturn)

\* start.go:95-97: haCmd.Start(); on success waitHostAgentStart is entered
\* and computes its deadline (start.go:126-128)
StartSpawn(ok) ==
    /\ pc = "spawn"
    /\ IF ok
         THEN /\ proc' = "running"
              /\ hsDeadline' = now + deadlineDuration
              /\ pc' = "waitStart"
              /\ UNCHANGED ret
         ELSE /\ pc' = "returned" /\ ret' = "spawnError"
              /\ UNCHANGED <<proc, hsDeadline>>
    /\ UNCHANGED notStart
    /\ UNCHANGED <<winner, pidfile, exitStatus, now, watchDeadline, logLines,
                   processed, lastEv, w, wend, wres, wpc, xpc>>
    /\ procAtReturn' = (IF pc' = "returned" THEN proc' ELSE procAtReturn)

\* waitHostAgentStart with the test of start.go:133 turned round: it gives up
\* while the deadline has not passed
waitHostAgentStart_GivesUpEarly ==
    /\ pc = "waitStart"
    /\ pidfile \/ now <= hsDeadline
    /\ IF pidfile
         THEN pc' = "go" /\ UNCHANGED ret
         ELSE pc' = "returned" /\ ret' = "didNotStartUp"
    /\ UNCHANGED notStart
    /\ UNCHANGED <<winner, pidfile, proc, exitStatus, now, hsDeadline,
                   watchDeadline, logLines, processed, lastEv, w, wend, wres, wpc, xpc>>
    /\ procAtReturn' = (IF pc' = "returned" THEN proc' ELSE procAtReturn)

\* waitHostAgentStart without the deadline test of start.go:133
waitHostAgentStart_NoDeadline ==
    /\ pc = "waitStart"
    /\ pidfile
    /\ pc' = "go" /\ UNCHANGED ret
    /\ UNCHANGED notStart
    /\ UNCHANGED <<winner, pidfile, proc, exitStatus, now, hsDeadline,
                   watchDeadline, logLines, processed, lastEv, w, wend, wres, wpc, xpc>>
    /\ procAtReturn' = (IF pc' = "returned" THEN proc' ELSE procAtReturn)

\* start.go:129-136: one iteration of the loop of waitHostAgentStart that
\* leaves the loop; an iteration that finds neither condition repeats
waitHostAgentStart ==
    /\ pc = "waitStart"
    /\ pidfile \/ now > hsDeadline
    /\ IF pidfile
         THEN pc' = "go" /\ UNCHANGED ret
         ELSE pc' = "returned" /\ ret' = "didNotStartUp"
    /\ UNCHANGED notStart
    /\ UNCHANGED <<winner, pidfile, proc, exitStatus, now, hsDeadline,
                   watchDeadline, logLines, processed, lastEv, w, wend, wres, wpc, xpc>>
    /\ procAtReturn' = (IF pc' = "returned" THEN proc' ELSE procAtReturn)

\* start.go:103-112: both channels are made and both goroutines started; the
\* watcher arms its 10-minute deadline (start.go:140)
StartGo ==
    /\ pc = "go"
    /\ pc' = "select"
    /\ wpc' = "watch"
    /\ xpc' = "wait"
    /\ watchDeadline' = now + watchTimeout
    /\ UNCHANGED notStart
    /\ UNCHANGED <<procAtReturn, ret, winner, pidfile, proc, exitStatus, now,
                   hsDeadline,
                   logLines, processed, lastEv, w, wend, wres>>

\* SelectWatch as a case of a select in a loop: it takes the watcher's value
\* and goes on selecting
SelectWatch_Loops ==
    /\ pc = "select"
    /\ wpc = "send"
    /\ ret' = wres
    /\ winner' = "watch"
    /\ pc' = "select"
    /\ wpc' = "close"
    /\ UNCHANGED notStart
    /\ UNCHANGED <<pidfile, proc, exitStatus, now, hsDeadline, watchDeadline,
                   logLines, processed, lastEv, w, wend, wres, xpc>>
    /\ procAtReturn' = (IF pc' = "returned" THEN proc' ELSE procAtReturn)

\* start.go:115-118: the select receives from watchErrCh, an unbuffered
\* channel: the watcher's send at :105 completes in the same step
SelectWatch ==
    /\ pc = "select"
    /\ wpc = "send"
    /\ ret' = wres
    /\ winner' = "watch"
    /\ pc' = "returned"
    /\ wpc' = "close"
    /\ UNCHANGED notStart
    /\ UNCHANGED <<pidfile, proc, exitStatus, now, hsDeadline, watchDeadline,
                   logLines, processed, lastEv, w, wend, wres, xpc>>
    /\ procAtReturn' = (IF pc' = "returned" THEN proc' ELSE procAtReturn)

\* SelectWait returning waitErr itself, which is nil for exit status 0
SelectWait_ReturnsWaitErr ==
    /\ pc = "select"
    /\ xpc = "send"
    /\ ret' = (IF exitStatus = 0 THEN "nil" ELSE "hostAgentExited")
    /\ winner' = "wait"
    /\ pc' = "returned"
    /\ xpc' = "close"
    /\ UNCHANGED notStart
    /\ UNCHANGED <<pidfile, proc, exitStatus, now, hsDeadline, watchDeadline,
                   logLines, processed, lastEv, w, wend, wres, wpc>>
    /\ procAtReturn' = (IF pc' = "returned" THEN proc' ELSE procAtReturn)

\* start.go:119-121: the select receives from waitErrCh; fmt.Errorf wraps
\* waitErr, which is nil for exit status 0, into a non-nil error
SelectWait ==
    /\ pc = "select"
    /\ xpc = "send"
    /\ ret' = "hostAgentExited"
    /\ winner' = "wait"
    /\ pc' = "returned"
    /\ xpc' = "close"
    /\ UNCHANGED notStart
    /\ UNCHANGED <<pidfile, proc, exitStatus, now, hsDeadline, watchDeadline,
                   logLines, processed, lastEv, w, wend, wres, wpc>>
    /\ procAtReturn' = (IF pc' = "returned" THEN proc' ELSE procAtReturn)

-----------------------------------------------------------------------------
(* the environment of Start: the host agent subprocess and the clock *)

\* the host agent creates the file named by --pidfile (start.go:88)
HostAgentWritePID ==
    /\ proc = "running"
    /\ ~pidfile
    /\ pidfile' = TRUE
    /\ UNCHANGED notStart
    /\ UNCHANGED <<procAtReturn, pc, ret, winner, proc, exitStatus, now,
                   hsDeadline, watchDeadline,
                   logLines, processed, lastEv, w, wend, wres, wpc, xpc>>

\* the host agent writes one event line to its stdout (start.go:90)
HostAgentLog ==
    /\ proc = "running"
    /\ logLines < MaxLog
    /\ logLines' = logLines + 1
    /\ UNCHANGED notStart
    /\ UNCHANGED <<procAtReturn, pc, ret, winner, pidfile, proc, exitStatus, now,
                   hsDeadline,
                   watchDeadline, processed, lastEv, w, wend, wres, wpc, xpc>>

\* the host agent process exits by itself, with status s
HostAgentExit(s) ==
    /\ proc = "running"
    /\ proc' = "exited"
    /\ exitStatus' = s
    /\ UNCHANGED notStart
    /\ UNCHANGED <<procAtReturn, pc, ret, winner, pidfile, now, hsDeadline,
                   watchDeadline,
                   logLines, processed, lastEv, w, wend, wres, wpc, xpc>>

\* the caller of Start cancels ctx while the subprocess runs (a ctx that is
\* done before the spawn makes haCmd.Start fail: StartSpawn(FALSE))
CtxCancel ==
    /\ ~ctxDone
    /\ proc = "running"
    /\ ctxDone' = TRUE
    /\ UNCHANGED startVars
    /\ UNCHANGED <<diffVars, agentVars, sampleVars, trackerVars, streamVars,
                   returnVars, callerVars, flightVars>>

\* start.go:85: haCmd is made by exec.CommandContext(ctx, ...), so os/exec
\* kills the subprocess once ctx is done; Wait then reports "signal: killed"
\* and the exit code is -1
CommandContextKill ==
    /\ ctxDone
    /\ proc = "running"
    /\ proc' = "exited"
    /\ exitStatus' = -1
    /\ UNCHANGED <<procAtReturn, pc, ret, winner, pidfile, now, hsDeadline,
                   watchDeadline,
                   logLines, processed, lastEv, w, wend, wres, wpc, xpc>>
    /\ UNCHANGED notStart

\* time passes while a deadline is armed and not yet past: by seconds during
\* the startup handshake, by WatchTick seconds during the watch
Tick ==
    /\ \/ /\ pc = "waitStart"
          /\ now <= hsDeadline
          /\ now' = now + 1
       \/ /\ wpc = "watch"
          /\ now < watchDeadline
          /\ now' = now + WatchTick
    /\ UNCHANGED notStart
    /\ UNCHANGED <<procAtReturn, pc, ret, winner, pidfile, proc, exitStatus,
                   hsDeadline,
                   watchDeadline, logLines, processed, lastEv, w, wend, wres, wpc, xpc>>

-----------------------------------------------------------------------------
(* SpecStart *)

\* Start has not been called: a pidfile and a log of an earlier run may exist
StartInit(pidfiles, logs) ==
    /\ pc = "begin"
    /\ ret = "pending"
    /\ winner = "none"
    /\ pidfile \in pidfiles
    /\ proc = "none"
    /\ exitStatus = 0
    /\ procAtReturn = "pending"
    /\ now = 0
    /\ hsDeadline = 0
    /\ watchDeadline = 0
    /\ logLines \in logs
    /\ processed = 0
    /\ lastEv = NoEvent
    /\ w = WatchLocals0
    /\ wend = "none"
    /\ wres = "nil"
    /\ wpc = "idle"
    /\ xpc = "idle"

InitStart ==
    /\ StartInit(BOOLEAN, 0..1)
    /\ DiffIdle
    /\ AgentIdle
    /\ SampleIdle
    /\ TrackerIdle
    /\ StreamIdle
    /\ CtxIdle
    /\ ReturnIdle
    /\ FlightIdle
    /\ CallersIdle

NextStart ==
    \/ StartStat
    \/ \E ok \in BOOLEAN : StartPrepare(ok)
    \/ \E ok \in BOOLEAN : StartSpawn(ok)
    \/ waitHostAgentStart
    \/ StartGo
    \/ SelectWatch
    \/ SelectWait
    \/ \E ev \in Events : WatchLine(ev)
    \/ \E cause \in {"deadline", "eof"}, xerr \in {"nil", "ctxError"} :
           WatchEventsEnd(cause, xerr)
    \/ WatchEventsEnd("xerr", "watchError")
    \/ WatchClose
    \/ WaitReturn
    \/ WaitClose
    \/ HostAgentWritePID
    \/ HostAgentLog
    \/ \E s \in {0, 1} : HostAgentExit(s)
    \/ Tick

SpecStart == InitStart /\ [][NextStart]_vars

\* Start with a caller that may cancel ctx; no pidfile and no log are left
\* from an earlier run
InitStartCtx ==
    /\ StartInit({FALSE}, {0})
    /\ DiffIdle
    /\ AgentIdle
    /\ SampleIdle
    /\ TrackerIdle
    /\ StreamIdle
    /\ CtxIdle
    /\ ReturnIdle
    /\ FlightIdle
    /\ CallersIdle

NextStartCtx ==
    \/ NextStart
    \/ CtxCancel
    \/ CommandContextKill

SpecStartCtx == InitStartCtx /\ [][NextStartCtx]_vars

\* The goroutines and Start itself are scheduled fairly and the clock advances;
\* nothing obliges the host agent process to act.
FairSpecStart ==
    /\ SpecStart
    /\ WF_vars(StartStat)
    /\ WF_vars(\E ok \in BOOLEAN : StartPrepare(ok))
    /\ WF_vars(\E ok \in BOOLEAN : StartSpawn(ok))
    /\ WF_vars(waitHostAgentStart)
    /\ WF_vars(StartGo)
    /\ WF_vars(SelectWatch)
    /\ WF_vars(SelectWait)
    /\ WF_vars(\E cause \in {"deadline"}, xerr \in {"nil", "ctxError"} :
                   WatchEventsEnd(cause, xerr))
    /\ WF_vars(WatchClose)
    /\ WF_vars(WaitReturn)
    /\ WF_vars(WaitClose)
    /\ WF_vars(Tick)

-----------------------------------------------------------------------------
(* Properties of Start and of the watcher *)

Terminal(ev) == ev.exiting \/ ev.running

WatcherReturned == wpc \in {"send", "close", "done"}

\* C1: once the select of Start has chosen a winner, the losing goroutine is
\* released too: no goroutine stays blocked for ever on the send of its result.
C1_LosingGoroutineReleased ==
    <>[](wpc # "send" /\ xpc # "send")

\* C5: when the select takes the exit-wait case, Start returns the "host agent
\* process has exited" failure, whatever the exit status is.
C5_ExitAlwaysFails ==
    winner = "wait" => (ret = "hostAgentExited" /\ ret # "nil")

C5_Witness ==
    winner = "wait" /\ proc = "exited" /\ exitStatus = 0 /\ pc = "returned"

\* when the select takes the watcher case, Start returns the watcher's value
\* as it is, and the step that returns does nothing to the subprocess
WatcherOutcomeVerbatim ==
    /\ [](winner = "watch" => ret = wres)
    /\ [][(pc = "select" /\ pc' = "returned" /\ winner' = "watch")
             => (ret' = wres /\ proc' = proc /\ exitStatus' = exitStatus)]_vars

\* C6: when the select takes the watcher case, Start returns the watcher's
\* value, and when that value is success Start has not terminated the
\* subprocess: it is running when Start returns, unless it has exited by
\* itself.
C6_WatcherSuccessLeavesRunning ==
    (pc = "returned" /\ winner = "watch")
      => /\ ret = wres
         /\ ret = "nil" => (procAtReturn = "running" \/ exitStatus \in {0, 1})

\* C7 as stated: when the subprocess has exited and the pidfile has not
\* appeared, Start resolves to the "host agent process has exited" failure.
C7_EarlyExitIsUnexpectedExit ==
    [][(proc = "exited" /\ ~pidfile /\ pc # "returned" /\ pc' = "returned")
          => ret' = "hostAgentExited"]_vars

\* C7 as amended: with the subprocess exited and no pidfile, Start leaves the
\* handshake only with the "did not start up" failure and only after the
\* 5-second deadline; with the pidfile there, the select's exit case gives
\* "host agent process has exited" and can be taken as soon as Wait() has
\* returned, whatever the clock says; and once the subprocess has exited
\* Start does return.
C7_EarlyExitResolves ==
    /\ [][(proc = "exited" /\ ~pidfile /\ pc = "waitStart" /\ pc' = "returned")
             => (ret' = "didNotStartUp" /\ now > hsDeadline)]_vars
    /\ [][(proc = "exited" /\ pc = "select" /\ winner' = "wait")
             => ret' = "hostAgentExited"]_vars
    /\ []((pc = "select" /\ xpc = "send") => ENABLED SelectWait)
    /\ (proc = "exited" /\ pc \in {"waitStart", "go", "select"}) ~> (pc = "returned")

C7_Witness ==
    /\ pc = "returned" /\ ret = "didNotStartUp"
    /\ procAtReturn = "exited" /\ ~pidfile /\ now = hsDeadline + 1

\* C8: the first terminal event decides the watcher's value: exiting gives the
\* "exiting" failure (also with running set), running with degraded gives the
\* "degraded" failure, running without degraded and without exiting gives nil.
C8_TerminalEventOutcome ==
    wend = "stop" =>
        /\ Terminal(lastEv)
        /\ lastEv.exiting => wres = "exiting"
        /\ (~lastEv.exiting /\ lastEv.running /\ lastEv.degraded) => wres = "degraded"
        /\ (~lastEv.exiting /\ lastEv.running /\ ~lastEv.degraded) => wres = "nil"

C8_Witness ==
    wend = "stop" /\ lastEv.exiting /\ lastEv.running /\ ~lastEv.degraded
        /\ wres = "exiting"

\* C9: after a terminal event was handed to onEvent, no further line is
\* processed and the watcher's value does not change.
C9_TerminalOnce ==
    [][(processed > 0 /\ Terminal(lastEv))
          => (processed' = processed /\ lastEv' = lastEv /\ wres' = wres /\ w' = w)]_vars

C9_Witness ==
    /\ processed > 0 /\ Terminal(lastEv) /\ wpc = "done"
    /\ logLines > processed

\* C10: when WatchEvents returns because of the deadline or the end of the
\* stream, watchHostAgentEvents returns a failure; it returns nil only after an
\* event with running and without degraded and exiting was processed.
C10_NoSuccessWithoutRunning ==
    WatcherReturned =>
        /\ wend \in {"deadline", "eof", "xerr"} => wres # "nil"
        /\ wres = "nil" =>
              (processed > 0 /\ lastEv.running /\ ~lastEv.degraded /\ ~lastEv.exiting)

C10_Witness ==
    /\ WatcherReturned /\ wend = "deadline" /\ wres = "noRunningEvent"
    /\ processed > 0 /\ now >= watchDeadline

\* C11: when the pidfile exists as Start is called, Start returns the "seems
\* running" failure at once: no log file is removed or created anew and no
\* subprocess is spawned.
C11_AlreadyRunning ==
    /\ [][(pc = "begin" /\ pidfile /\ pc' # pc)
             => /\ pc' = "returned" /\ ret' = "seemsRunning"
                /\ logLines' = logLines
                /\ proc = "none" /\ proc' = "none"]_vars
    /\ [](ret = "seemsRunning" => (proc = "none" /\ procAtReturn = "none" /\ pidfile))

C11_Witness ==
    /\ pc = "returned" /\ ret = "seemsRunning"
    /\ pidfile /\ logLines = 1 /\ proc = "none"

\* C12: while the pidfile does not appear, waitHostAgentStart does not wait
\* for ever: it returns the "did not start up" failure, and it returns it only
\* after the 5-second deadline has passed.
C12_StartupTimeout ==
    /\ [][(pc = "waitStart" /\ pc' = "returned")
             => (ret' = "didNotStartUp" /\ ~pidfile /\ now > hsDeadline)]_vars
    /\ [][(pc = "spawn" /\ pc' = "waitStart")
             => hsDeadline' = now + deadlineDuration]_vars
    /\ (pc = "waitStart") ~> (pidfile \/ (pc = "returned" /\ ret = "didNotStartUp"))

C12_Witness ==
    /\ pc = "returned" /\ ret = "didNotStartUp"
    /\ procAtReturn = "running" /\ ~pidfile /\ now > deadlineDuration

\* C13 as stated: every call of Start returns, and returns one outcome that
\* does not change afterwards; once the subprocess is spawned, Start returns
\* no later than the first of the handshake deadline, the watcher's value and
\* the exit of the subprocess: during the handshake no second passes with the
\* subprocess exited and Start still waiting, and in the select Start can
\* return as soon as the watcher or the exit wait has a value to send.
C13_ReturnsAtFirstEvent ==
    /\ <>(pc = "returned")
    /\ [](pc = "returned" <=> ret # "pending")
    /\ [][ret # "pending" => (ret' = ret /\ pc' = pc)]_vars
    /\ [][(pc = "waitStart" /\ proc = "exited" /\ ~pidfile) => now' = now]_vars
    /\ []((pc = "select" /\ wpc = "send") => ENABLED SelectWatch)
    /\ []((pc = "select" /\ xpc = "send") => ENABLED SelectWait)

\* C13 as amended: every call of Start returns, and returns one outcome that
\* does not change afterwards; once the subprocess is spawned, Start returns
\* by the handshake deadline, by the watcher's value or by the exit of the
\* subprocess, whichever its code is waiting for: during the handshake only
\* the deadline ends the wait, also when the subprocess exited long before,
\* and in the select Start can return as soon as the watcher or the exit wait
\* has a value to send. Every run comes to stay where Start has returned and
\* the watcher, bounded by its deadline, watches no more.
C13_ExactlyOneOutcome ==
    /\ <>[](pc = "returned" /\ wpc # "watch")
    /\ [](pc = "returned" <=> ret # "pending")
    /\ [][ret # "pending" => (ret' = ret /\ pc' = pc)]_vars
    /\ [][(pc \in {"waitStart", "go", "select"} /\ pc' = "returned")
             => \/ (pc = "waitStart" /\ now > hsDeadline /\ ret' = "didNotStartUp")
                \/ (pc = "select" /\ wpc = "send" /\ winner' = "watch" /\ ret' = wres)
                \/ (pc = "select" /\ xpc = "send" /\ proc = "exited"
                      /\ winner' = "wait" /\ ret' = "hostAgentExited")]_vars
    /\ [][(pc = "waitStart" /\ now <= hsDeadline) => pc' # "returned"]_vars
    /\ []((pc = "select" /\ wpc = "send") => ENABLED SelectWatch)
    /\ []((pc = "select" /\ xpc = "send") => ENABLED SelectWait)

C13_Witness ==
    /\ pc = "returned" /\ ret = "didNotStartUp" /\ winner = "none"
    /\ procAtReturn = "exited" /\ exitStatus = 1
    /\ hsDeadline = deadlineDuration /\ now > hsDeadline

\* C27: the SSH local port is reported at most once: the number of reports
\* goes up, by one, exactly at the first processed event with a non-zero
\* sshLocalPort; an event with a non-zero port that is processed after the
\* port has been printed makes no further report; and after an event with a
\* non-zero port that is not terminal, the first or a later one, the watcher
\* goes on.
C27_PortReportedOnce ==
    /\ [](w.portReports <= 1)
    /\ [](w.portRepeated
            => (w.portReports = 1 /\ lastEv.sshLocalPort # 0 /\ ~Terminal(lastEv)))
    /\ [][processed' = processed + 1
             => /\ w'.portReports = w.portReports
                      + (IF w.portReports = 0 /\ lastEv'.sshLocalPort # 0 THEN 1 ELSE 0)
                /\ w'.portRepeated
                     <=> (w.portReports = 1 /\ lastEv'.sshLocalPort # 0
                            /\ ~Terminal(lastEv'))
                /\ (w.portReports = 1 /\ lastEv'.sshLocalPort # 0)
                     => w'.portReports = w.portReports
                /\ w'.portRepeated => w'.portReports = w.portReports
                /\ (lastEv'.sshLocalPort # 0 /\ ~Terminal(lastEv'))
                     => (wpc' = "watch" /\ wend' = "none")]_vars

C27_Witness ==
    /\ processed = 2 /\ w.portRepeated /\ w.portReports = 1
    /\ lastEv.sshLocalPort # 0 /\ ~Terminal(lastEv) /\ wpc = "watch"

\* C28: an event with errors that has neither exiting nor running set is
\* logged and changes nothing else: the watcher goes on with the next line
\* and its value is not decided.
C28_ErrorsNotTerminal ==
    [][(processed' = processed + 1 /\ lastEv'.errors # <<>>
          /\ ~lastEv'.exiting /\ ~lastEv'.running)
         => /\ w'.errorLogs = w.errorLogs + 1
            /\ ~w'.stop /\ w'.err = w.err
            /\ w'.receivedRunningEvent = w.receivedRunningEvent
            /\ wpc' = "watch" /\ wend' = "none" /\ wres' = wres
            /\ pc' = pc /\ ret' = ret]_vars

C28_Witness ==
    /\ processed = 2 /\ w.errorLogs = 2 /\ ~Terminal(lastEv)
    /\ wpc = "watch" /\ wend = "none" /\ pc = "select"

-----------------------------------------------------------------------------
(* SpecDiff *)

InitDiff ==
    /\ DiffInit
    /\ StartInit({FALSE}, {0})
    /\ AgentIdle
    /\ SampleIdle
    /\ TrackerIdle
    /\ StreamIdle
    /\ CtxIdle
    /\ ReturnIdle
    /\ FlightIdle
    /\ CallersIdle

NextDiff ==
    \/ ComparePorts
    \/ CompareSockets

SpecDiff == InitDiff /\ [][NextDiff]_vars

-----------------------------------------------------------------------------
(* Properties of comparePorts and compareSockets *)

PortKeys(q) == { IPPortString(q[i]) : i \in 1..Len(q) }

\* C3: compareSockets returns as added the paths of neww that are not in old,
\* as removed the paths of old that are not in neww, and the two are disjoint.
C3_SocketsDiff ==
    (cmpPc = "done" /\ (oldSockets # <<>> \/ newSockets # <<>>)) =>
        /\ Range(socketsAdded) = Range(newSockets) \ Range(oldSockets)
        /\ Range(socketsRemoved) = Range(oldSockets) \ Range(newSockets)
        /\ Range(socketsAdded) \cap Range(socketsRemoved) = {}

\* C4: comparePorts returns as added the endpoints of neww whose ip:port key
\* does not occur in old, as removed the endpoints of old whose key does not
\* occur in neww, and the two are disjoint.
C4_PortsDiff ==
    (cmpPc = "done" /\ (oldPorts # <<>> \/ newPorts # <<>>)) =>
        /\ Range(portsAdded) =
             { f \in Range(newPorts) : IPPortString(f) \notin PortKeys(oldPorts) }
        /\ Range(portsRemoved) =
             { f \in Range(oldPorts) : IPPortString(f) \notin PortKeys(newPorts) }
        /\ PortKeys(portsAdded) \cap PortKeys(portsRemoved) = {}

C4_Witness ==
    /\ cmpPc = "done"
    /\ oldPorts = << [ip |-> "127.0.0.1", port |-> 80] >>
    /\ newPorts = << [ip |-> "127.0.0.1", port |-> 80],
                     [ip |-> "127.0.0.1", port |-> 443] >>
    /\ portsAdded = << [ip |-> "127.0.0.1", port |-> 443] >>
    /\ portsRemoved = <<>>

C4_WitnessRemoved ==
    /\ cmpPc = "done"
    /\ oldPorts = << [ip |-> "127.0.0.1", port |-> 80],
                     [ip |-> "0.0.0.0", port |-> 80] >>
    /\ newPorts = << [ip |-> "127.0.0.1", port |-> 443] >>
    /\ Len(portsRemoved) = 2 /\ Len(portsAdded) = 1

-----------------------------------------------------------------------------
(* SpecSample *)

\* an agent whose methods are called from outside the Events loop: the flag
\* and the cache are as the tracker and earlier calls have left them
InitSample ==
    /\ SampleInit
    /\ apc = "off"
    /\ st = [ports |-> <<>>, sockets |-> <<>>]
    /\ curEv = EmptyEvent
    /\ chClosed = FALSE
    /\ cancelled = FALSE
    /\ tickerOpen = TRUE
    /\ consumerGone = FALSE
    /\ bigEndian \in BOOLEAN
    /\ worthCheckingIPTables \in BOOLEAN
    /\ latestIPTables \in SeqsUpTo(SampleIptEntries, MaxIpt)
    /\ sinceLatestTrue = (IF worthCheckingIPTables THEN 0 ELSE iptablesIdle)
    /\ StartInit({FALSE}, {0})
    /\ DiffIdle
    /\ TrackerIdle
    /\ StreamIdle
    /\ CtxIdle
    /\ ReturnIdle
    /\ FlightIdle
    /\ CallersIdle

NextSample ==
    \/ CallLocalPorts
    \/ CallLocalSockets
    \/ CallInfo

SpecSample == InitSample /\ [][NextSample]_vars

-----------------------------------------------------------------------------
(* Properties of LocalPorts and Info *)

\* C19: on a big-endian host LocalPorts returns the "big endian" error with
\* an empty list and Info returns it with no Info value; neither reads the
\* TCP tables, the packet filter or the socket table, and the cache is left
\* as it was.
C19_BigEndianRejected ==
    [][(spc = "ready" /\ spc' = "done" /\ bigEndian
          /\ sres'.call \in {"LocalPorts", "Info"})
         => /\ sres'.err = "bigEndian"
            /\ sres'.ports = <<>> /\ sres'.info = <<>>
            /\ ~sres'.parsed /\ ~sres'.queried /\ ~sres'.unixRead
            /\ latestIPTables' = latestIPTables]_vars

C19_Witness ==
    /\ spc = "done" /\ bigEndian /\ sres.call = "LocalPorts"
    /\ sres.err = "bigEndian" /\ sres.ports = <<>>
    /\ tcpTable.err = "nil" /\ Len(listening(tcpTable.val)) = 2
    /\ worthCheckingIPTables /\ iptTable.err = "nil" /\ iptTable.val # <<>>

\* C20: the list LocalPorts returns has no two endpoints with the same
\* ip:port string.
C20_NoDuplicateEndpoints ==
    (spc = "done" /\ sres.call = "LocalPorts") =>
        \A i, j \in 1..Len(sres.ports) :
            i # j => IPPortString(sres.ports[i]) # IPPortString(sres.ports[j])

\* C26: a successful LocalPorts returns the listening endpoints of the TCP
\* tables, all of them and first, followed by endpoints taken from the rules
\* (the fresh ones if the flag was found set, else the cached ones); an endpoint taken
\* from a rule has a port that no other endpoint of the result has, and every
\* rule's port is in the result.
C26_MergeSkipsKnownPorts ==
    [][(spc = "ready" /\ spc' = "done" /\ sres'.call = "LocalPorts"
          /\ sres'.err = "nil")
         => LET direct == listening(tcpTable.val)
                rules  == IF sres'.queried THEN iptTable.val
                          ELSE latestIPTables
                out    == sres'.ports
                n      == Len(direct)
            IN  /\ Len(out) >= n
                /\ SubSeq(out, 1, n) = direct
                /\ \A i \in (n + 1)..Len(out) :
                      /\ \E k \in 1..Len(rules) :
                            rules[k].ip = out[i].ip /\ rules[k].port = out[i].port
                      /\ \A j \in 1..Len(out) : j # i => out[j].port # out[i].port
                /\ \A k \in 1..Len(rules) :
                      \E j \in 1..Len(out) : out[j].port = rules[k].port]_vars

C26_Witness ==
    /\ spc = "done" /\ sres.call = "LocalPorts" /\ sres.err = "nil"
    /\ sres.queried
    /\ tcpTable.val = << [kind |-> "TCP", state |-> "TCPListen",
                          ip |-> "127.0.0.1", port |-> 80] >>
    /\ iptTable.val = << [ip |-> "0.0.0.0", port |-> 80],
                         [ip |-> "0.0.0.0", port |-> 8080] >>
    /\ sres.ports = << [ip |-> "127.0.0.1", port |-> 80],
                       [ip |-> "0.0.0.0", port |-> 8080] >>

-----------------------------------------------------------------------------
(* SpecTracker *)

\* New is about to be called on a little-endian guest
InitTracker ==
    /\ npc = "new"
    /\ newRet = NoReturn
    /\ rpc = "off"
    /\ ipc = "off"
    /\ lastMsg = "none"
    /\ slept = 0
    /\ flagMu = NoHolder
    /\ cacheMu = NoHolder
    /\ lpc = "off"
    /\ lw = NoLocals
    /\ flagWrites = {}
    /\ apc = "off"
    /\ st = [ports |-> <<>>, sockets |-> <<>>]
    /\ curEv = EmptyEvent
    /\ chClosed = FALSE
    /\ cancelled = FALSE
    /\ tickerOpen = TRUE
    /\ consumerGone = FALSE
    /\ bigEndian = FALSE
    /\ worthCheckingIPTables = FALSE
    /\ latestIPTables = <<>>
    /\ sinceLatestTrue = SinceCap
    /\ StartInit({FALSE}, {0})
    /\ DiffIdle
    /\ SampleIdle
    /\ StreamIdle
    /\ CtxIdle
    /\ ReturnIdle
    /\ FlightIdle
    /\ CallersIdle

NextTracker ==
    \/ \E clientOk, statusOk, setOk \in BOOLEAN, enabled \in {0, 1} :
           New(clientOk, statusOk, enabled, setOk)
    \/ \E m \in AuditMsgs : TrackerReceive(m)
    \/ TrackerLock
    \/ TrackerWrite
    \/ IdleWake
    \/ IdleLock
    \/ IdleDecay
    \/ TrackerClock
    \/ LocalPortsCall
    \/ \E tcp \in TrackerTcpReads : LocalPortsParse(tcp)
    \/ LocalPortsRLock
    \/ LocalPortsReadFlag
    \/ \E v \in BOOLEAN : LocalPortsBranch(v)
    \/ \E ipt \in TrackerIptReads : LocalPortsQuery(ipt)
    \/ LocalPortsCacheLock
    \/ LocalPortsCacheStore
    \/ LocalPortsCacheRLock
    \/ LocalPortsCacheLoad
    \/ LocalPortsMerge

SpecTracker == InitTracker /\ [][NextTracker]_vars

-----------------------------------------------------------------------------
(* The subprocess and the context of Start *)

\* C33: on every return of Start after the spawn the subprocess is still
\* running unless it has exited by itself.
C33_StartNeverTerminates ==
    (pc = "returned" /\ procAtReturn \notin {"pending", "none"})
        => (procAtReturn = "running" \/ exitStatus \in {0, 1})

\* no step of Start ends the subprocess, and while ctx is not done a
\* subprocess that has not exited by itself is running when Start returns and
\* can still create the pidfile; the subprocess is ended from outside only by
\* the kill that exec.CommandContext makes once ctx is done
TerminatedOnlyByContext ==
    /\ [][(proc = "running" /\ proc' # "running")
             => /\ proc' = "exited" /\ pc' = pc /\ procAtReturn' = procAtReturn
                /\ exitStatus' \in {0, 1} \/ (ctxDone /\ exitStatus' = -1)]_vars
    /\ []((pc = "returned" /\ procAtReturn \notin {"pending", "none"} /\ ~ctxDone)
            => (procAtReturn = "running" \/ exitStatus \in {0, 1}))
    /\ []((pc = "returned" /\ procAtReturn = "exited" /\ exitStatus = -1) => ctxDone)
    /\ []((pc = "returned" /\ proc = "running" /\ ~pidfile)
            => ENABLED HostAgentWritePID)

-----------------------------------------------------------------------------
(* Properties of New, of the tracker and of the locks *)

\* C21: when making the audit client, reading its status or enabling
\* auditing fails, New returns the error and no agent, and neither loop of
\* the tracker is ever started; an agent is returned only without an error.
C21_SubscriptionFailure ==
    /\ [](npc = "done" => (newRet.agent <=> newRet.err = "nil"))
    /\ []((npc = "done" /\ newRet.err # "nil")
            => (~newRet.agent /\ rpc = "off" /\ ipc = "off" /\ lpc = "off"
                  /\ ~worthCheckingIPTables))
    /\ [][(npc = "new" /\ npc' = "done" /\ newRet'.err = "nil")
             => (rpc' = "receive" /\ ipc' = "sleep")]_vars

C21_Witness ==
    /\ npc = "done" /\ newRet.err = "setEnabledError" /\ ~newRet.agent
    /\ rpc = "off" /\ ipc = "off"

\* C22: the flag is read and written only by a holder of its lock: the
\* receive loop and the idle loop write it holding the write lock, LocalPorts
\* reads it holding the read lock.
C22_FlagAccessUnderLock ==
    /\ rpc = "write" => flagMu.writer = "recv"
    /\ ipc = "check" => flagMu.writer = "idle"
    /\ lpc = "rread" => "LocalPorts" \in flagMu.readers
    /\ lpc = "branch" => "LocalPorts" \in flagMu.readers
    /\ ~(lpc = "branch" /\ "LocalPorts" \notin flagMu.readers
           /\ (rpc = "write" \/ ipc = "check"))

\* C23: an idle check made less than iptablesIdle after the last
\* notification leaves the flag as it is, one made iptablesIdle or more after
\* it clears the flag; with a check every iptablesIdle the flag is not set
\* any more once 2 * iptablesIdle have passed since the last notification.
C23_IdleDecay ==
    /\ [][(ipc = "check" /\ ipc' = "sleep")
             => worthCheckingIPTables' =
                  (IF sinceLatestTrue >= iptablesIdle THEN FALSE
                   ELSE worthCheckingIPTables)]_vars
    /\ [](worthCheckingIPTables => sinceLatestTrue <= 2 * iptablesIdle)
    /\ []((worthCheckingIPTables /\ sinceLatestTrue >= iptablesIdle
             /\ rpc = "receive")
            => (ipc # "sleep" \/ slept > 0))

C23_Witness ==
    /\ ~worthCheckingIPTables /\ lastMsg = "AUDIT_NETFILTER_CFG"
    /\ rpc = "receive" /\ ipc = "sleep" /\ slept = 0
    /\ sinceLatestTrue = 2 * iptablesIdle - 1

\* C24: the flag goes from set to clear only in the idle loop's check and
\* only when latestTrue is iptablesIdle or more ago; it goes from clear to
\* set only in the receive loop, which takes the lock only for a message of
\* type AUDIT_NETFILTER_CFG.
C24_FlagTransitions ==
    /\ [][(worthCheckingIPTables /\ ~worthCheckingIPTables')
             => (ipc = "check" /\ ipc' = "sleep"
                   /\ sinceLatestTrue >= iptablesIdle)]_vars
    /\ [][(~worthCheckingIPTables /\ worthCheckingIPTables')
             => (rpc = "write" /\ rpc' = "receive"
                   /\ lastMsg = "AUDIT_NETFILTER_CFG" /\ sinceLatestTrue' = 0)]_vars
    /\ [](rpc \in {"lock", "write"} => lastMsg = "AUDIT_NETFILTER_CFG")
    /\ [][(rpc = "receive" /\ lastMsg' # "AUDIT_NETFILTER_CFG")
             => (rpc' = "receive" /\ sinceLatestTrue' >= sinceLatestTrue)]_vars

C24_Witness ==
    /\ worthCheckingIPTables /\ lastMsg = "AUDIT_OTHER" /\ rpc = "receive"
    /\ sinceLatestTrue = iptablesIdle /\ ipc = "lock"

\* C25: LocalPorts calls iptables.GetPorts only when the flag it read at the
\* branch was set; when it was clear it makes no call and merges the cached
\* list; the cache changes only when LocalPorts, holding the cache's write
\* lock, stores the list a successful call has just returned.
C25_QueryOnlyWhenWorth ==
    /\ [][(lpc = "branch" /\ lpc' # "branch")
             => /\ lw'.branch \in UnlockedFlagReads
                /\ lpc' = (IF lw'.branch THEN "query" ELSE "crlock")]_vars
    /\ [](lpc \in {"query", "clock", "cstore"} => lw.branch)
    /\ [](lpc \in {"crlock", "cload"} => (~lw.branch /\ iptTable = NotRead))
    /\ [](lpc = "merge" => (lw.branch <=> iptTable # NotRead))
    /\ [](lpc = "done" => (sres.queried <=> iptTable # NotRead))
    /\ [][(lpc = "cload" /\ lpc' = "merge") => lw'.ipts = latestIPTables]_vars
    /\ [][latestIPTables' # latestIPTables
             => (lpc = "cstore" /\ cacheMu.writer = "LocalPorts"
                   /\ iptTable.err = "nil" /\ latestIPTables' = iptTable.val)]_vars
    /\ [][(lpc = "cstore" /\ lpc' # lpc) => latestIPTables' = iptTable.val]_vars

C25_Witness ==
    /\ lpc = "done" /\ sres.err = "nil" /\ ~sres.queried
    /\ ~lw.worth /\ ~lw.branch /\ iptTable = NotRead
    /\ latestIPTables = << [ip |-> "0.0.0.0", port |-> 8080] >>
    /\ Len(sres.ports) = 2

\* C29: when LocalPorts reads the TCP tables or calls iptables.GetPorts it
\* holds neither the flag's lock nor the cache's lock; the receive loop does
\* not hold the flag's lock while it waits in Receive, nor the idle loop
\* while it sleeps.
C29_NoLockAcrossIO ==
    /\ lpc \in {"begin", "query"}
         => /\ "LocalPorts" \notin flagMu.readers /\ flagMu.writer # "LocalPorts"
            /\ "LocalPorts" \notin cacheMu.readers /\ cacheMu.writer # "LocalPorts"
    /\ rpc = "receive" => flagMu.writer # "recv"
    /\ ipc = "sleep" => flagMu.writer # "idle"

C29_Witness ==
    /\ lpc = "query" /\ flagMu.writer = "recv" /\ ipc = "sleep"
    /\ cacheMu = NoHolder

\* the agent is as New made it: the flag is clear and nobody is about to set
\* it, the cache is empty, and LocalPorts has neither asked the packet filter
\* nor is it about to
AsConstructed ==
    /\ npc = "done" /\ newRet.agent
    /\ ~worthCheckingIPTables /\ TRUE \notin flagWrites
    /\ latestIPTables = <<>>
    /\ rpc = "receive"
    /\ lpc \notin {"off", "query", "clock", "cstore"}
    /\ ~lw.worth /\ ~lw.branch /\ lw.ipts = <<>>
    /\ iptTable = NotRead /\ ~sres.queried

\* C32: New returns the agent with the flag clear and the cache empty, and
\* this stays so until the receive loop gets a message of type
\* AUDIT_NETFILTER_CFG; as long as it is so LocalPorts does not call
\* iptables.GetPorts and returns the listening TCP entries and nothing else.
C32_NoQueryBeforeFirstNotification ==
    /\ [](npc = "new" => (~worthCheckingIPTables /\ latestIPTables = <<>>))
    /\ [][(npc = "new" /\ npc' = "done" /\ newRet'.agent) => AsConstructed']_vars
    /\ [][(AsConstructed /\ ~(rpc = "receive" /\ rpc' = "lock"
                               /\ lastMsg' = "AUDIT_NETFILTER_CFG"))
             => AsConstructed']_vars
    /\ []((AsConstructed /\ lpc = "done" /\ sres.err = "nil")
            => (sres.ports = listening(tcpTable.val) /\ ~sres.queried))

C32_Witness ==
    /\ AsConstructed /\ lpc = "done" /\ sres.err = "nil"
    /\ sres.ports = << [ip |-> "127.0.0.1", port |-> 80] >>
    /\ lastMsg = "AUDIT_OTHER" /\ sinceLatestTrue = SinceCap /\ slept > 0

-----------------------------------------------------------------------------
(* SpecStream: Events with a consumer that applies what it receives *)

InitStream ==
    /\ apc = "collect"
    /\ st = [ports |-> <<>>, sockets |-> <<>>]
    /\ curEv = EmptyEvent
    /\ chClosed = FALSE
    /\ cancelled = FALSE
    /\ tickerOpen = TRUE
    /\ consumerGone = FALSE
    /\ bigEndian = FALSE
    /\ worthCheckingIPTables \in BOOLEAN
    /\ latestIPTables = <<>>
    /\ sinceLatestTrue = iptablesIdle
    /\ StartInit({FALSE}, {0})
    /\ DiffIdle
    /\ SampleIdle
    /\ TrackerIdle
    /\ StreamIdle
    /\ CtxIdle
    /\ ReturnIdle
    /\ FlightIdle
    /\ CallersIdle

NextStream ==
    \/ StreamCollect
    \/ StreamReceive
    \/ EventsTick

SpecStream == InitStream /\ [][NextStream]_vars

\* C30: when no sample fails, the view the consumer builds from the events
\* alone is, after each cycle, the set of endpoints and the set of socket
\* paths of the snapshot the agent holds.
C30_StreamReconstructsState ==
    apc = "select"
      => /\ view.ports = Range(st.ports)
         /\ view.sockets = Range(st.sockets)

\* the endpoints alone are reconstructed
StreamPortsReconstructed ==
    apc = "select" => view.ports = Range(st.ports)

-----------------------------------------------------------------------------
(* SpecCallers: two callers in LocalPorts *)

InitCallers ==
    /\ AgentInit({"off"}, BOOLEAN)
    /\ StartInit({FALSE}, {0})
    /\ DiffIdle
    /\ SampleIdle
    /\ TrackerIdle
    /\ StreamIdle
    /\ CtxIdle
    /\ ReturnIdle
    /\ FlightIdle
    /\ CallersIdle

NextCallers ==
    \/ \E c \in Callers : \E tcp \in TrackerTcpReads : CallerEnter(c, tcp)
    \/ \E c \in Callers : CallerBranch(c)
    \/ \E c \in Callers : \E ipt \in TrackerIptReads : CallerGetPorts(c, ipt)
    \/ \E c \in Callers : CallerCacheLock(c)
    \/ \E c \in Callers : CallerCacheStore(c)
    \/ \E c \in Callers : CallerCacheRLock(c)
    \/ \E c \in Callers : CallerCacheLoad(c)
    \/ \E v \in BOOLEAN : TrackerSetsFlag(v)

SpecCallers == InitCallers /\ [][NextCallers]_vars

\* no caller has a list from the packet filter that it has not yet stored
NothingToStore == \A c \in Callers : callers[c].pc \notin {"clock", "cstore"}

\* C31: the cache is empty until the packet filter has been asked, and when
\* every list got from it has been stored the cache is the list the last
\* successful call of iptables.GetPorts returned.
C31_CacheIsLatestQuery ==
    /\ iptTable = NotRead => latestIPTables = <<>>
    /\ (NothingToStore /\ iptTable.err = "nil") => latestIPTables = iptTable.val

\* a call of iptables.GetPorts that fails ends the call of LocalPorts with
\* the error and leaves the cache as it is; the cache is written only by a
\* caller that holds its write lock
FailedQueryKeepsCache ==
    /\ [][\A c \in Callers :
             (callers[c].pc = "query" /\ callers'[c].pc = "done")
               => (callers'[c].err = "readError" /\ latestIPTables' = latestIPTables)]_vars
    /\ [][latestIPTables' # latestIPTables
             => \E c \in Callers : /\ cacheMu.writer = c
                                   /\ callers[c].pc = "cstore"
                                   /\ latestIPTables' = callers[c].ipts]_vars

-----------------------------------------------------------------------------
(* SpecAgent *)

InitAgent ==
    /\ AgentInit({"collect"}, BOOLEAN)
    /\ StartInit({FALSE}, {0})
    /\ DiffIdle
    /\ SampleIdle
    /\ TrackerIdle
    /\ StreamIdle
    /\ CtxIdle
    /\ ReturnIdle
    /\ FlightIdle
    /\ CallersIdle

NextAgent ==
    \/ EventsCollectStep
    \/ EventsSend
    \/ EventsTick
    \/ EventsReturn
    \/ ReceiveNetfilterCfg
    \/ IdleCheck
    \/ AgentClock
    \/ Cancel
    \/ TickerCloses
    \/ ConsumerLeaves

SpecAgent == InitAgent /\ [][NextAgent]_vars

\* The loop of Events is scheduled and the ticker ticks while it is open; a
\* consumer that is still there receives in the end; the select at
\* part_001:458 chooses among its ready cases at random, so a case that is
\* ready again and again is taken in the end.
FairSpecAgent ==
    /\ SpecAgent
    /\ WF_vars(EventsCollectStep)
    /\ WF_vars(EventsSend)
    /\ WF_vars(EventsTick)
    /\ SF_vars(EventsReturn)

-----------------------------------------------------------------------------
(* Properties of the Events loop *)

\* C2: a cycle whose sample of the ports or of the sockets failed leaves the
\* stored snapshot, ports and sockets, as it was before the cycle.
C2_FailedSampleKeepsSnapshot ==
    [][(apc = "collect" /\ apc' # "collect" /\ curEv'.errors # <<>>) => st' = st]_vars

\* some field of the event other than Time is not empty
NonEmpty(e) ==
    \/ e.localPortsAdded # <<>> \/ e.localPortsRemoved # <<>>
    \/ e.localSocketsAdded # <<>> \/ e.localSocketsRemoved # <<>>
    \/ e.errors # <<>>

\* C14: a cycle hands its event to the consumer if and only if one of the
\* event's five lists is not empty; a cycle without an error whose snapshot has
\* the ports and the sockets of the previous one sends nothing; and a cycle
\* sends at most once: after the send the loop waits for the next tick.
C14_EmitIffNonEmpty ==
    /\ [][(apc = "collect" /\ apc' # "collect")
             => /\ apc' \in {"send", "select"}
                /\ apc' = "send" <=> NonEmpty(curEv')
                /\ (/\ PortKeys(st'.ports) = PortKeys(st.ports)
                    /\ Range(st'.sockets) = Range(st.sockets)
                    /\ curEv'.errors = <<>>) => apc' = "select"]_vars
    /\ [][(apc = "send" /\ apc' # "send") => apc' = "select"]_vars
    /\ [](apc = "send" => NonEmpty(curEv))

C14_Witness ==
    /\ apc = "send" /\ curEv.errors = <<>>
    /\ curEv.localPortsAdded = <<>> /\ curEv.localPortsRemoved # <<>>
    /\ st.sockets # <<>>

\* C15: an event that reports a failed sample has nothing but the error: its
\* four lists of added and removed ports and sockets are empty.
C15_ErrorEventCarriesOnlyError ==
    (apc = "send" /\ curEv.errors # <<>>) =>
        /\ curEv.localPortsAdded = <<>> /\ curEv.localPortsRemoved = <<>>
        /\ curEv.localSocketsAdded = <<>> /\ curEv.localSocketsRemoved = <<>>

\* C16: once ctx is cancelled, Events returns and closes the channel, whether
\* the consumer still receives or not.
C16_CancelStopsLoop ==
    cancelled ~> (apc = "returned" /\ chClosed)

\* C17: Events returns only from its select and only when ctx is done or the
\* ticker's channel is closed; an event with an error can be delivered while
\* the consumer is there, after it the loop is at the select again, and there a
\* tick can be taken and starts the next sample.
C17_FailureDoesNotStopLoop ==
    /\ [][(apc # "returned" /\ apc' = "returned")
             => (apc = "select" /\ (cancelled \/ ~tickerOpen))]_vars
    /\ [][(apc = "send" /\ curEv.errors # <<>> /\ apc' # "send")
             => apc' = "select"]_vars
    /\ []((apc = "send" /\ curEv.errors # <<>> /\ ~consumerGone) => ENABLED EventsSend)
    /\ []((apc = "select" /\ tickerOpen) => ENABLED EventsTick)
    /\ [][(apc = "select" /\ apc' # "select" /\ tickerOpen /\ ~cancelled)
             => apc' = "collect"]_vars

C17_Witness ==
    /\ bigEndian /\ apc = "select"
    /\ ~cancelled /\ tickerOpen /\ ~chClosed

\* C18: while an event waits to be received nothing is sampled: the snapshot
\* and the cache stay as they are and the event stays the same; a sample
\* starts only from the select, when no event is pending; a cycle goes from
\* the sample to the send or the select and from the send to the select.
C18_SequentialBackpressure ==
    /\ [][apc = "send"
             => /\ st' = st /\ latestIPTables' = latestIPTables
                /\ (curEv' = curEv /\ apc' = "send") \/ (apc' = "select" /\ ~consumerGone)]_vars
    /\ [][(apc' = "collect" /\ apc # "collect")
             => (apc = "select" /\ curEv = EmptyEvent /\ st' = st)]_vars
    /\ [][(apc = "collect" /\ apc' # "collect") => apc' \in {"send", "select"}]_vars

C18_Witness ==
    /\ apc = "send" /\ consumerGone /\ tickerOpen /\ ~cancelled
    /\ st.ports # <<>> /\ curEv.localPortsAdded # <<>>

\* C34: when Events has returned it has closed the channel once and called
\* tickerClose once; before it returns it has done neither; and once the
\* channel is closed Events does nothing more: no event is sent on it.
C34_ReturnClosesOnce ==
    /\ [](apc = "returned"
            => (chCloses = 1 /\ tickerCloses = 1 /\ chClosed /\ ~tickerOpen))
    /\ [](apc # "returned" => (chCloses = 0 /\ tickerCloses = 0 /\ ~chClosed))
    /\ [][chClosed => (apc' = "returned" /\ curEv' = curEv /\ st' = st
                         /\ chCloses' = chCloses /\ tickerCloses' = tickerCloses)]_vars
    /\ [][(chCloses' # chCloses \/ tickerCloses' # tickerCloses)
             => (apc = "select" /\ apc' = "returned" /\ curEv = EmptyEvent
                   /\ (cancelled \/ ~tickerOpen))]_vars

C34_Witness ==
    /\ apc = "returned" /\ chCloses = 1 /\ tickerCloses = 1
    /\ ~cancelled /\ st.ports # <<>> /\ ~consumerGone

====
